---- MODULE Spec2Model ----
(***************************************************************************)
(* State-machine model of the Astral satellite visualiser: the zustand     *)
(* store (useSatelliteStore), the per-frame propagation pipeline           *)
(* (Satellites.useFrame), the closest-satellite detector, the user-intent  *)
(* handlers, the clock (TimeControls), the camera state machine            *)
(* (CameraController, with the timers that apply a preset's rotation),     *)
(* the orbital trail and its level of detail (SatelliteTrails), the        *)
(* recorded motion trails (MotionTrails), the pointing-hardware sends of   *)
(* the pipeline, the catalog fetch and the interval of the periodic        *)
(* search (Scene), and the server's catalog service (TLEService).          *)
(*                                                                         *)
(* Numbers.  Scene lengths are integers in tenths of a scene unit          *)
(* (EARTH_RADIUS 6.371 is 64), interpolation factors are fractions with    *)
(* an explicit denominator, transitionProgress is counted in tenths and    *)
(* simulated time in clock periods of 100 ms.  A NaN is carried by the     *)
(* `nan' flag of a sample or vector; the numeric fields of a NaN carry no  *)
(* meaning.                                                                *)
(***************************************************************************)
EXTENDS Integers, Sequences, FiniteSets, TLC

VARIABLES
    store,                \* the zustand store (useSatelliteStore)
    localPositionBuffer,  \* Satellites: useRef(new Map()), id -> sample
    frameCounter,         \* Satellites: useRef(0)
    pendingFind,          \* armed 100 ms one-shot timers of enableClosestSatelliteMode
    cam,                  \* CameraController: useState / useRef fields, camera, controls
    trails,               \* SatelliteTrails: lodSegments, lastDistanceRef, satellitePositionRef
    arduino,              \* Satellites: lastArduinoSend, the wall clock and the latest sends
    fetchState,           \* Scene: the catalog fetch, "pending", "resolved" or "failed"
    interval,             \* Scene: the 2 s interval of the periodic search, and its clock
    clock,                \* TimeControls: the values the 100 ms interval's callback closes over
    motionTrails,         \* MotionTrails: trailData and the time of its last frame
    server,               \* TLEService: cache, lastUpdate, updateInProgress, running updates
    lastOp                \* history: the handler that produced the current state

vars == <<store, localPositionBuffer, frameCounter, pendingFind, cam, trails, arduino,
          fetchState, interval, clock, motionTrails, server, lastOp>>

-----------------------------------------------------------------------------
(* Bounds of the exploration *)

MaxTime == 5            \* clock periods the simulated time may advance
MaxFrames == 1          \* propagation frames explored by the interaction specifications
MaxSyncFrames == 121    \* propagation frames explored by the pipeline specification
MaxPending == 1         \* one-shot timers that may be armed at once
MaxDelta == 5           \* largest per-frame progress increment (delta * 1.2), in tenths
MaxPauseFrames == 3     \* propagation frames explored by the clock specification
MaxLodSteps == 220      \* largest camera-to-object distance explored, in LodStep
MaxWallClock == 1000    \* wall-clock milliseconds explored by the pointing specifications
MaxSendFrames == 6      \* propagation frames explored by the pointing specifications
MaxIntervalClock == 6000 \* wall-clock milliseconds explored by the cadence specification
MaxMotionClock == 16000 \* wall-clock milliseconds explored by the motion-trail specification
MaxCalls == 3           \* calls of fetchLatestTLEs, the constructor's included
MaxUnmountFrames == 62  \* propagation frames explored by the unmount specification
MaxVisitFrames == 2     \* propagation frames explored by the visit specification

-----------------------------------------------------------------------------
(* Values *)

NULL == "null"
EARTH == "earth"

\* The catalog returned by /api/satellites, in catalog order.
Catalog == <<"s1", "s2", "s3">>

Ids == {Catalog[i] : i \in 1..Len(Catalog)}

None == <<>>
Some(v) == <<v>>

Min(a, b) == IF a <= b THEN a ELSE b
Max(a, b) == IF a >= b THEN a ELSE b
Abs(a) == IF a >= 0 THEN a ELSE -a

RECURSIVE SqrtSearch(_, _, _)
SqrtSearch(n, lo, hi) ==
    IF lo >= hi THEN lo
    ELSE LET mid == (lo + hi + 1) \div 2
         IN IF mid * mid <= n THEN SqrtSearch(n, mid, hi)
            ELSE SqrtSearch(n, lo, mid - 1)

\* Math.sqrt on a non-negative integer, rounded down.
Sqrt(n) == SqrtSearch(n, 0, Min(n, 46340))

-----------------------------------------------------------------------------
(* THREE.Vector3 *)

Vec(x, y, z) == [nan |-> FALSE, x |-> x, y |-> y, z |-> z]
NaNVec == [nan |-> TRUE, x |-> 0, y |-> 0, z |-> 0]

\* Length of the unit vector in the model's fixed-point representation.
UnitLen == 1000

VAdd(a, b) ==
    IF a.nan \/ b.nan THEN NaNVec ELSE Vec(a.x + b.x, a.y + b.y, a.z + b.z)

VLength(a) == Sqrt(a.x * a.x + a.y * a.y + a.z * a.z)

\* Vector3.distanceTo
VDistance(a, b) ==
    Sqrt((a.x - b.x) * (a.x - b.x) + (a.y - b.y) * (a.y - b.y)
         + (a.z - b.z) * (a.z - b.z))

\* Vector3.normalize: the result has length UnitLen; the zero vector stays zero.
VNormalize(a) ==
    IF a.nan THEN NaNVec
    ELSE LET len == VLength(a)
         IN IF len = 0 THEN Vec(0, 0, 0)
            ELSE Vec((a.x * UnitLen) \div len, (a.y * UnitLen) \div len,
                     (a.z * UnitLen) \div len)

\* unit.multiplyScalar(d) for a normalized vector `unit' and a length d.
VScaleUnit(unit, d) ==
    IF unit.nan THEN NaNVec
    ELSE Vec((unit.x * d) \div UnitLen, (unit.y * d) \div UnitLen,
             (unit.z * d) \div UnitLen)

\* Vector3.lerpVectors(a, b, num/den): a + (b - a) * alpha, per component.
VLerp(a, b, num, den) ==
    IF a.nan \/ b.nan THEN NaNVec
    ELSE Vec(a.x + ((b.x - a.x) * num) \div den,
             a.y + ((b.y - a.y) * num) \div den,
             a.z + ((b.z - a.z) * num) \div den)

-----------------------------------------------------------------------------
(* JavaScript Map *)

EmptyMap == [k \in {} |-> 0]

\* Map.set(k, v)
MapSet(m, k, v) == [x \in (DOMAIN m) \cup {k} |-> IF x = k THEN v ELSE m[x]]

\* Map.get(k) || null
MapGet(m, k) == IF k \in DOMAIN m THEN Some(m[k]) ELSE None

-----------------------------------------------------------------------------
(* The external propagator (satellite.js) and the scene transform *)

EARTH_RADIUS == 64      \* 6.371 scene units, in tenths
KmPerTenth == 100       \* SCALE_FACTOR = 1/1000 scene units per km: 100 km per tenth

\* What satellite.propagate yields for object id at simulated time t:
\*   "ok"      a position and velocity;
\*   "decayed" the failure record {position: false, velocity: false};
\*   "error"   a failure value without a position field, so that reading the
\*             position throws inside the per-object try block.
\* Over the times explored the failing objects are, in turn, {s3}, {},
\* {s3}, {s1, s3}, {s2} and {s1, s2, s3}.
PropagateOutcome(id, t) ==
    IF id = "s1"
    THEN (IF t = 3 \/ t = 5 THEN "error" ELSE IF t >= 6 THEN "decayed" ELSE "ok")
    ELSE IF id = "s2"
    THEN (IF t = 4 THEN "decayed" ELSE IF t = 5 THEN "error" ELSE "ok")
    ELSE IF t = 0 THEN "error"
    ELSE IF t = 1 \/ t = 4 THEN "ok"
    ELSE IF t = 2 THEN "decayed"
    ELSE "error"

\* satellite.eciToGeodetic of the propagated position: degrees and km.
Geodetic(id, t) ==
    IF id = "s1" THEN [lat |-> 0, lon |-> 0, alt |-> 600 + 100 * t]
    ELSE IF id = "s2" THEN [lat |-> 0, lon |-> 90, alt |-> 600 + 200 * t]
    ELSE [lat |-> 90, lon |-> 0, alt |-> 1600 + 100 * t]

\* Magnitude of the propagated velocity, km/s.
Speed(id, t) == IF id = "s3" THEN 6 ELSE 7

\* Math.cos / Math.sin on the multiples of 90 degrees the orbits above use.
Cos(deg) == IF deg = 0 THEN 1 ELSE IF deg = 180 THEN -1 ELSE 0
Sin(deg) == IF deg = 90 THEN 1 ELSE IF deg = -90 THEN -1 ELSE 0

NaNSample ==
    [nan |-> TRUE, x |-> 0, y |-> 0, z |-> 0, lat |-> 0, lon |-> 0, alt |-> 0,
     velocity |-> 0]

\* The sample Satellites.useFrame writes for a propagation result that is a
\* position: geodetic coordinates mapped to the scaled Earth-centred frame.
SceneSample(gd, speed) ==
    LET radius == EARTH_RADIUS + gd.alt \div KmPerTenth
    IN [nan |-> FALSE,
        x |-> radius * Cos(gd.lat) * Cos(gd.lon),
        y |-> radius * Sin(gd.lat),
        z |-> radius * Cos(gd.lat) * Sin(gd.lon),
        lat |-> gd.lat, lon |-> gd.lon, alt |-> gd.alt, velocity |-> speed]

SampleVec(p) == [nan |-> p.nan, x |-> p.x, y |-> p.y, z |-> p.z]

-----------------------------------------------------------------------------
(* useSatelliteStore: state and actions, as functions of the store record *)

InitStore ==
    [satellites |-> <<>>,
     satellitePositions |-> EmptyMap,
     selectedSatellite |-> NULL,
     hoveredSatellite |-> NULL,
     followedSatellite |-> NULL,
     visitedObject |-> NULL,
     closestSatelliteMode |-> FALSE,
     closestSatelliteId |-> NULL,
     closestSatelliteDistance |-> None,
     currentTime |-> 0,
     timeSpeed |-> 1,
     isPaused |-> FALSE,
     showTrails |-> TRUE,
     realtimePositionGetter |-> FALSE]

setSatellites(s, satellites) == [s EXCEPT !.satellites = satellites]

setSatellitePosition(s, noradId, position) ==
    [s EXCEPT !.satellitePositions = MapSet(s.satellitePositions, noradId, position)]

setSelectedSatelliteKeepsClosest(s, noradId) ==
    [s EXCEPT !.selectedSatellite = noradId, !.closestSatelliteMode = FALSE]

setSelectedSatellite(s, noradId) ==
    [s EXCEPT !.selectedSatellite = noradId,
              !.closestSatelliteMode = FALSE,
              !.closestSatelliteId = NULL,
              !.closestSatelliteDistance = None]

toggleTrails(s) == [s EXCEPT !.showTrails = ~@]

setFollowedSatellite(s, noradId) == [s EXCEPT !.followedSatellite = noradId]

setVisitedObject(s, object) == [s EXCEPT !.visitedObject = object]

enableClosestSatelliteModeUnguarded(s) == [s EXCEPT !.closestSatelliteMode = TRUE]

\* The store part of enableClosestSatelliteMode; the 100 ms timer it arms is
\* counted by the handler that calls it (ArmsFindTimer).
enableClosestSatelliteMode(s) ==
    IF s.selectedSatellite = NULL THEN s
    ELSE [s EXCEPT !.closestSatelliteMode = TRUE]

ArmsFindTimer(s) == s.selectedSatellite # NULL

disableClosestSatelliteMode(s) ==
    [s EXCEPT !.closestSatelliteMode = FALSE,
              !.closestSatelliteId = NULL,
              !.closestSatelliteDistance = None]

setCurrentTime(s, time) == [s EXCEPT !.currentTime = time]

setTimeSpeed(s, speed) == [s EXCEPT !.timeSpeed = speed]

togglePause(s) == [s EXCEPT !.isPaused = ~s.isPaused]

setPaused(s, paused) == [s EXCEPT !.isPaused = paused]

setRealtimePositionGetter(s, registered) ==
    [s EXCEPT !.realtimePositionGetter = registered]

\* getRealtimePosition: the live buffer when the getter is registered, the
\* throttled copy otherwise.
getRealtimePosition(s, buf, noradId) ==
    IF s.realtimePositionGetter THEN MapGet(buf, noradId)
    ELSE MapGet(s.satellitePositions, noradId)

SampleDistanceOneSided(p, q) ==
    IF p.nan \/ q.nan THEN None
    ELSE Some(Sqrt((p.x - q.x) * (p.x - q.x) + (p.y - q.y) * (p.y - q.y)
                   + (p.z - q.z) * (p.z - q.z))
              + (IF p.z > q.z THEN 1 ELSE 0))

\* Math.sqrt(dx*dx + dy*dy + dz*dz) of two samples; None stands for NaN.
SampleDistance(p, q) ==
    IF p.nan \/ q.nan THEN None
    ELSE Some(Sqrt((p.x - q.x) * (p.x - q.x) + (p.y - q.y) * (p.y - q.y)
                   + (p.z - q.z) * (p.z - q.z)))

CloserOrEqual(distance, closestDistance) ==
    /\ distance # None
    /\ closestDistance = None \/ distance[1] <= closestDistance[1]

\* distance < closestDistance, where closestDistance = None is Infinity and a
\* NaN distance compares false.
CloserThan(distance, closestDistance) ==
    /\ distance # None
    /\ closestDistance = None \/ distance[1] < closestDistance[1]

\* The forEach of findClosestSatellite from catalog index i on, with the running
\* minimum (closestId, closestDistance).
RECURSIVE ClosestScan(_, _, _, _, _, _, _)
ClosestScan(s, buf, selectedId, selectedPos, i, closestId, closestDistance) ==
    IF i > Len(s.satellites) THEN [id |-> closestId, distance |-> closestDistance]
    ELSE LET id == s.satellites[i]
             pos == getRealtimePosition(s, buf, id)
         IN IF id = selectedId \/ pos = None
            THEN ClosestScan(s, buf, selectedId, selectedPos, i + 1,
                             closestId, closestDistance)
            ELSE LET distance == SampleDistance(pos[1], selectedPos)
                 IN IF CloserThan(distance, closestDistance)
                    THEN ClosestScan(s, buf, selectedId, selectedPos, i + 1,
                                     id, distance)
                    ELSE ClosestScan(s, buf, selectedId, selectedPos, i + 1,
                                     closestId, closestDistance)

findClosestSatelliteReportingSelf(s, buf) ==
    IF s.selectedSatellite = NULL
       \/ getRealtimePosition(s, buf, s.selectedSatellite) = None
       \/ ~s.realtimePositionGetter
    THEN s
    ELSE [s EXCEPT !.closestSatelliteId = s.selectedSatellite,
                   !.closestSatelliteDistance = Some(0)]

findClosestSatelliteClearing(s, buf) ==
    LET selectedId == s.selectedSatellite
        selectedPos == getRealtimePosition(s, buf, selectedId)
        found == IF selectedId = NULL \/ selectedPos = None \/ ~s.realtimePositionGetter
                 THEN [id |-> NULL, distance |-> None]
                 ELSE ClosestScan(s, buf, selectedId, selectedPos[1], 1, NULL, None)
    IN [s EXCEPT !.closestSatelliteId = found.id,
                 !.closestSatelliteDistance = found.distance]

findClosestSatellite(s, buf) ==
    LET selectedId == s.selectedSatellite
        selectedPos == getRealtimePosition(s, buf, selectedId)
    IN IF selectedId = NULL THEN s
       ELSE IF selectedPos = None THEN s
       ELSE IF ~s.realtimePositionGetter THEN s
       ELSE LET found == ClosestScan(s, buf, selectedId, selectedPos[1], 1,
                                     NULL, None)
            IN IF found.id # NULL
               THEN [s EXCEPT !.closestSatelliteId = found.id,
                              !.closestSatelliteDistance = found.distance]
               ELSE s

-----------------------------------------------------------------------------
(* Satellites.useFrame: the propagation driver and the observable sync *)

ZUSTAND_UPDATE_INTERVAL == 60

\* The body of the per-object try block: the buffer after processing object id
\* at time t.  A position is transformed and written; the failure record
\* {position: false} is not tested for, its coordinates evaluate to NaN and
\* are written; a failure value that makes reading the position throw leaves
\* the entry as it was (the catch only logs).
\* `thrower' is the object whose tracking block throws out of sendToArduino on
\* this tick (NULL when none does): the block sits in the same try, after the
\* propagation and before the mesh update and the buffer write, so the catch
\* leaves that object's entry as it was.
ProcessObject(buf, id, t, thrower) ==
    LET outcome == PropagateOutcome(id, t)
    IN IF outcome = "error" \/ id = thrower THEN buf
       ELSE IF outcome = "ok"
       THEN MapSet(buf, id, SceneSample(Geodetic(id, t), Speed(id, t)))
       ELSE MapSet(buf, id, NaNSample)

RECURSIVE PropagateAll(_, _, _, _, _)

PropagateUntilFailure(buf, satellites, i, t, thrower) ==
    IF i > Len(satellites) \/ PropagateOutcome(satellites[i], t) # "ok" THEN buf
    ELSE PropagateAll(ProcessObject(buf, satellites[i], t, thrower), satellites, i + 1, t,
                      thrower)

\* satelliteData.forEach from index i on.
PropagateAll(buf, satellites, i, t, thrower) ==
    IF i > Len(satellites) THEN buf
    ELSE PropagateAll(ProcessObject(buf, satellites[i], t, thrower), satellites, i + 1, t,
                      thrower)

\* The pointing hardware.  sendToArduino returns at once without a writer and
\* otherwise hands the message to writer.write; the outcomes of a call are that
\* it returns, that the write is rejected later (the promise is dropped), or
\* that the call throws.
SendReturns == {"returns"}
SendOutcomes == {"returns", "rejects", "throws"}

\* Milliseconds of wall clock between two frames: the frames of the
\* specifications that leave the pointing hardware aside run within the first
\* send window, those of the pointing specifications at these distances.
SameInstant == {0}
FrameTimes == {50, 250, 251}

ARDUINO_SEND_INTERVAL == 250

\* Satellites before any frame: lastArduinoSend = useRef(0).  `now' is
\* performance.now() at the latest frame; lastCall, gap and tick record the
\* time of the latest sendToArduino call, the time between the latest two
\* calls and the outcome of the call of the latest frame.
InitArduino ==
    [now |-> 0, lastArduinoSend |-> 0, lastCall |-> None, gap |-> None, tick |-> "none"]

\* isTracked of the object the loop is at, for the objects whose propagation
\* did not throw before the tracking block.
IsTracked(s, id) ==
    /\ s.selectedSatellite # NULL
    /\ id = s.selectedSatellite
    /\ PropagateOutcome(id, s.currentTime) # "error"

SendDueEveryFrame(ar, now) == TRUE

\* now - lastArduinoSend.current > 250
SendDue(ar, now) == now - ar.lastArduinoSend > ARDUINO_SEND_INTERVAL

\* Whether the frame at wall-clock time `now' calls sendToArduino: the catalog
\* holds the selected object, its tracking block is reached and a send is due.
FrameSends(s, ar, now) ==
    /\ \E i \in 1..Len(s.satellites) : IsTracked(s, s.satellites[i])
    /\ SendDue(ar, now)

\* The tracking block of a frame at wall-clock time `now' whose send, if one
\* is made, has the given outcome: lastArduinoSend is assigned after the call,
\* so a call that throws leaves it as it was.
TrackingBlock(s, ar, now, outcome) ==
    IF ~FrameSends(s, ar, now) THEN [ar EXCEPT !.now = now, !.tick = "none"]
    ELSE [now |-> now,
          lastArduinoSend |-> IF outcome = "throws" THEN ar.lastArduinoSend ELSE now,
          lastCall |-> Some(now),
          gap |-> IF ar.lastCall = None THEN None ELSE Some(now - ar.lastCall[1]),
          tick |-> outcome]

\* The object whose processing the send of this frame throws out of.
Thrower(s, ar, now, outcome) ==
    IF FrameSends(s, ar, now) /\ outcome = "throws" THEN s.selectedSatellite ELSE NULL

ShouldUpdateAlways(counter) == TRUE

\* shouldUpdateZustand, from the incremented counter.
ShouldUpdateZustand(counter) == counter % ZUSTAND_UPDATE_INTERVAL = 0

SyncFirstEntryOnly(s, buf, satellites, i) ==
    IF i <= Len(satellites) /\ satellites[i] \in DOMAIN buf
    THEN setSatellitePosition(s, satellites[i], buf[satellites[i]])
    ELSE s

\* localPositionBuffer.forEach((pos, id) => setSatellitePosition(id, pos)),
\* walking the buffer's keys in catalog order from index i on.
RECURSIVE SyncPositions(_, _, _, _)
SyncPositions(s, buf, satellites, i) ==
    IF i > Len(satellites) THEN s
    ELSE IF satellites[i] \in DOMAIN buf
         THEN SyncPositions(setSatellitePosition(s, satellites[i], buf[satellites[i]]),
                            buf, satellites, i + 1)
         ELSE SyncPositions(s, buf, satellites, i + 1)

-----------------------------------------------------------------------------
(* CameraController *)

\* transitionProgress = 1, in tenths.
ProgressOne == 10
\* Denominator of the eased factor: 2^10.
EaseDen == 1024

\* CAMERA_PRESETS
OverviewPosition == Vec(0, 150, 300)
OverviewTarget == Vec(0, 0, 0)
VisitingEarthPosition == Vec(0, (EARTH_RADIUS * 3) \div 2, EARTH_RADIUS * 2)
VisitingEarthTarget == Vec(0, 0, 0)

\* minDistance and maxDistance of each preset of CAMERA_PRESETS.
PresetLimits(preset) ==
    IF preset = "visiting_earth"
    THEN [minDistance |-> EARTH_RADIUS + 10, maxDistance |-> EARTH_RADIUS * 4]
    ELSE IF preset = "visiting_satellite"
    THEN [minDistance |-> 5, maxDistance |-> 50]
    ELSE IF preset = "closest_satellite_view"
    THEN [minDistance |-> 50, maxDistance |-> 500]
    ELSE [minDistance |-> 80, maxDistance |-> 500]

\* getMinDistance() / getMaxDistance(): the limits handed to OrbitControls by
\* the render of camera state c; every state without a case of its own,
\* 'transitioning' included, gets the overview limits.
getMinDistance(c) ==
    IF c.cameraState \in {"visiting_earth", "visiting_satellite", "closest_satellite_view"}
    THEN PresetLimits(c.cameraState).minDistance
    ELSE PresetLimits("overview").minDistance

getMaxDistance(c) ==
    IF c.cameraState \in {"visiting_earth", "visiting_satellite", "closest_satellite_view"}
    THEN PresetLimits(c.cameraState).maxDistance
    ELSE PresetLimits("overview").maxDistance

SteadyStates ==
    {"overview", "visiting_earth", "visiting_satellite", "closest_satellite_view"}

EaseWithoutEndCase(p) == EaseDen - 2 ^ (ProgressOne - p)

\* easeOutExpo(t) = t === 1 ? 1 : 1 - 2^(-10 t), as a numerator over EaseDen,
\* for t = p tenths.
easeOutExpo(p) == IF p = ProgressOne THEN EaseDen ELSE EaseDen - 2 ^ (ProgressOne - p)

\* autoRotate of CAMERA_PRESETS, by preset.
PresetAutoRotate(preset) == preset \in {"visiting_earth", "visiting_satellite"}

\* setTimeout(() => { controls.autoRotate = preset.autoRotate; ... }, 100) of
\* the mode effect.  The timers are never cleared and, having one delay, fire
\* in the order they were armed.  A timer still armed when the effect runs
\* again is taken to fire just before that run, where startTransition
\* overwrites what it wrote: the queue holds the latest timer only.
SchedulePreset(c, preset) ==
    [c EXCEPT !.targetPreset = preset, !.presetTimers = <<preset>>]

\* startTransition(newPosition, newTarget)
startTransition(c, newPosition, newTarget) ==
    [c EXCEPT !.startCameraPosition = c.position,
              !.startCameraTarget = c.target,
              !.targetPosition = newPosition,
              !.targetLookAt = newTarget,
              !.transitionProgress = 0,
              !.isTransitioning = TRUE,
              !.cameraState = "transitioning",
              !.autoRotate = FALSE]

\* Midpoint of two samples.
Midpoint(p1, p2) ==
    IF p1.nan \/ p2.nan THEN NaNVec
    ELSE Vec((p1.x + p2.x) \div 2, (p1.y + p2.y) \div 2, (p1.z + p2.z) \div 2)

\* Camera position of the compare view: along the midpoint's normal, at 0.7 of
\* max(2 * separation, 15 units).
ComparePosition(p1, p2) ==
    LET midpoint == Midpoint(p1, p2)
        distance == SampleDistance(p1, p2)
    IN IF distance = None THEN NaNVec
       ELSE LET cameraDistance == Max(distance[1] * 2, 150)
            IN VAdd(midpoint,
                    VScaleUnit(VNormalize(midpoint), (cameraDistance * 7) \div 10))

\* Camera position of a satellite visit: 2.5 units out along the normal plus
\* 0.5 along the tangent (-n.z, 0, n.x), normalized.
VisitPosition(satVector) ==
    LET normal == VNormalize(satVector)
        tangent == IF normal.nan THEN NaNVec
                   ELSE VNormalize(Vec(-normal.z, 0, normal.x))
    IN VAdd(VAdd(satVector, VScaleUnit(normal, 25)), VScaleUnit(tangent, 5))

\* The mode effect (useEffect on visitedObject, closestSatelliteMode,
\* selectedSatellite, closestSatelliteId).  The setCameraState calls of one
\* run are batched: the last one decides.  targetPreset is a history field:
\* the preset from which the effect computed the transition target.
ModeEffect(s, buf, c) ==
    IF s.closestSatelliteMode /\ s.selectedSatellite # NULL /\ s.closestSatelliteId # NULL
    THEN LET pos1 == getRealtimePosition(s, buf, s.selectedSatellite)
             pos2 == getRealtimePosition(s, buf, s.closestSatelliteId)
         IN IF pos1 # None /\ pos2 # None
            THEN SchedulePreset(startTransition(c, ComparePosition(pos1[1], pos2[1]),
                                                Midpoint(pos1[1], pos2[1])),
                                "closest_satellite_view")
            ELSE [c EXCEPT !.cameraState = "closest_satellite_view"]
    ELSE IF s.visitedObject = NULL
    THEN SchedulePreset(startTransition(c, OverviewPosition, OverviewTarget),
                        "overview")
    ELSE IF s.visitedObject = EARTH
    THEN SchedulePreset(startTransition(c, VisitingEarthPosition, VisitingEarthTarget),
                        "visiting_earth")
    ELSE LET satPos == getRealtimePosition(s, buf, s.visitedObject)
         IN IF satPos # None
            THEN SchedulePreset(startTransition(c, VisitPosition(SampleVec(satPos[1])),
                                                SampleVec(satPos[1])),
                                "visiting_satellite")
            ELSE [c EXCEPT !.cameraState = "visiting_satellite"]

\* The dependency list of the mode effect.
ModeDeps(s) ==
    <<s.visitedObject, s.closestSatelliteMode, s.selectedSatellite, s.closestSatelliteId>>

\* React re-runs the mode effect after a render in which a dependency changed.
AfterRender(old, new, buf, c) ==
    IF ModeDeps(new) # ModeDeps(old) THEN ModeEffect(new, buf, c) ELSE c

\* The steady state entered when a transition completes.
CompletedState(s) ==
    IF s.closestSatelliteMode THEN "closest_satellite_view"
    ELSE IF s.visitedObject = NULL THEN "overview"
    ELSE IF s.visitedObject = EARTH THEN "visiting_earth"
    ELSE "visiting_satellite"

\* The transition branch of useFrame, for a progress increment of `step' tenths.
TransitionFrame(c, s, step) ==
    LET raw == c.transitionProgress + step
        done == raw >= ProgressOne
        progress == IF done THEN ProgressOne ELSE raw
        eased == easeOutExpo(progress)
    IN [c EXCEPT !.transitionProgress = progress,
                 !.isTransitioning = ~done,
                 !.cameraState = IF done THEN CompletedState(s) ELSE @,
                 !.position = VLerp(c.startCameraPosition, c.targetPosition,
                                    eased, EaseDen),
                 !.target = VLerp(c.startCameraTarget, c.targetLookAt,
                                  eased, EaseDen)]

NeedsNudgeAlways(currentDistance) == TRUE

\* currentDistance > 4 || currentDistance < 1.5, in tenths.
NeedsNudge(currentDistance) == currentDistance > 40 \/ currentDistance < 15

FollowWheneverSet(s) == s.followedSatellite # NULL

\* The condition of the follow branch of useFrame.
FollowActive(s) ==
    /\ s.followedSatellite # NULL
    /\ s.visitedObject = NULL
    /\ ~s.closestSatelliteMode

\* The steady-state branches of useFrame.
SteadyFrame(c, s, buf) ==
    IF /\ c.cameraState = "closest_satellite_view"
       /\ s.closestSatelliteMode
       /\ s.selectedSatellite # NULL
       /\ s.closestSatelliteId # NULL
    THEN LET pos1 == getRealtimePosition(s, buf, s.selectedSatellite)
             pos2 == getRealtimePosition(s, buf, s.closestSatelliteId)
         IN IF pos1 # None /\ pos2 # None
            THEN [c EXCEPT !.target = VLerp(c.target, Midpoint(pos1[1], pos2[1]), 5, 100)]
            ELSE c
    ELSE IF /\ c.cameraState = "visiting_satellite"
            /\ s.visitedObject # NULL
            /\ s.visitedObject # EARTH
    THEN LET satPos == getRealtimePosition(s, buf, s.visitedObject)
         IN IF satPos = None THEN c
            ELSE LET satVector == SampleVec(satPos[1])
                     outside == /\ ~satVector.nan
                                /\ ~c.position.nan
                                /\ NeedsNudge(VDistance(c.position, satVector))
                     idealPos == VAdd(satVector, VScaleUnit(VNormalize(satVector), 25))
                 IN [c EXCEPT !.target = VLerp(c.target, satVector, 10, 100),
                              !.position = IF outside THEN VLerp(@, idealPos, 5, 100)
                                           ELSE @]
    ELSE IF c.cameraState = "visiting_earth" THEN c
    ELSE IF FollowActive(s)
    THEN LET satPos == getRealtimePosition(s, buf, s.followedSatellite)
         IN IF satPos = None THEN c
            ELSE LET satVector == SampleVec(satPos[1])
                     cameraPos == VAdd(satVector,
                                       VScaleUnit(VNormalize(satVector), 30))
                 IN [c EXCEPT !.targetPosition = satVector,
                              !.position = VLerp(@, cameraPos, 5, 100),
                              !.target = VLerp(@, satVector, 5, 100)]
    ELSE c

\* useFrame((state, delta) => ...), with delta * 1.2 = step tenths.
CameraFrame(c, s, buf, step) ==
    IF c.isTransitioning THEN TransitionFrame(c, s, step) ELSE SteadyFrame(c, s, buf)

\* The component before its mount effect has run: Canvas camera at (0, 15, 30),
\* OrbitControls target at the origin.
InitCamera ==
    [cameraState |-> "overview",
     isTransitioning |-> FALSE,
     transitionProgress |-> 0,
     targetPosition |-> Vec(0, 0, 0),
     targetLookAt |-> Vec(0, 0, 0),
     startCameraPosition |-> Vec(0, 0, 0),
     startCameraTarget |-> Vec(0, 0, 0),
     position |-> Vec(0, 150, 300),
     target |-> Vec(0, 0, 0),
     targetPreset |-> "none",
     autoRotate |-> FALSE,
     presetTimers |-> <<>>]

-----------------------------------------------------------------------------
(* SatelliteTrails: the level of detail of the selected object's trail *)

MAX_TRAIL_SEGMENTS == 100
MIN_TRAIL_SEGMENTS == 10
MAX_VISIBLE_DISTANCE == 1000    \* 100 scene units, in tenths
LOD_NEAR_DISTANCE == 150        \* 15 scene units
LOD_FAR_DISTANCE == 500         \* 50 scene units
LOD_UPDATE_THRESHOLD == 50      \* 5 scene units

\* Camera-to-object distances are explored in steps of half a scene unit.
LodStep == 5

\* Math.floor(a / b) for b > 0.
Floor(a, b) == IF a >= 0 THEN a \div b ELSE -((-a + b - 1) \div b)

NewSegmentsRoundedUp(distance) ==
    IF distance > MAX_VISIBLE_DISTANCE THEN 0
    ELSE IF distance < LOD_NEAR_DISTANCE THEN MAX_TRAIL_SEGMENTS
    ELSE IF distance < LOD_FAR_DISTANCE
    THEN MAX_TRAIL_SEGMENTS
         - Floor((distance - LOD_NEAR_DISTANCE) * (MAX_TRAIL_SEGMENTS - MIN_TRAIL_SEGMENTS),
                 LOD_FAR_DISTANCE - LOD_NEAR_DISTANCE)
    ELSE Max(0, MIN_TRAIL_SEGMENTS
                - Floor(MIN_TRAIL_SEGMENTS * (distance - LOD_FAR_DISTANCE),
                        MAX_VISIBLE_DISTANCE - LOD_FAR_DISTANCE))

\* newSegments with the far band falling from the maximum count instead of the
\* minimum count.
NewSegmentsFarFromMax(distance) ==
    IF distance > MAX_VISIBLE_DISTANCE THEN 0
    ELSE IF distance < LOD_NEAR_DISTANCE THEN MAX_TRAIL_SEGMENTS
    ELSE IF distance < LOD_FAR_DISTANCE
    THEN Floor(MAX_TRAIL_SEGMENTS * (LOD_FAR_DISTANCE - LOD_NEAR_DISTANCE)
               - (distance - LOD_NEAR_DISTANCE) * (MAX_TRAIL_SEGMENTS - MIN_TRAIL_SEGMENTS),
               LOD_FAR_DISTANCE - LOD_NEAR_DISTANCE)
    ELSE Max(0, Floor(MAX_TRAIL_SEGMENTS * (MAX_VISIBLE_DISTANCE - distance),
                      MAX_VISIBLE_DISTANCE - LOD_FAR_DISTANCE))

\* newSegments of SatelliteTrails.useFrame for a camera-to-object distance in
\* tenths: with t = (distance - near) / (far - near),
\* floor(MAX - t * (MAX - MIN)), and with t = (distance - far) / (visible - far),
\* max(0, floor(MIN * (1 - t))).
NewSegments(distance) ==
    IF distance > MAX_VISIBLE_DISTANCE THEN 0
    ELSE IF distance < LOD_NEAR_DISTANCE THEN MAX_TRAIL_SEGMENTS
    ELSE IF distance < LOD_FAR_DISTANCE
    THEN Floor(MAX_TRAIL_SEGMENTS * (LOD_FAR_DISTANCE - LOD_NEAR_DISTANCE)
               - (distance - LOD_NEAR_DISTANCE) * (MAX_TRAIL_SEGMENTS - MIN_TRAIL_SEGMENTS),
               LOD_FAR_DISTANCE - LOD_NEAR_DISTANCE)
    ELSE Max(0, Floor(MIN_TRAIL_SEGMENTS * (MAX_VISIBLE_DISTANCE - distance),
                      MAX_VISIBLE_DISTANCE - LOD_FAR_DISTANCE))

\* The component before any frame: lodSegments at its maximum, no distance
\* recorded, no position of the selected object known.
InitTrails ==
    [lodSegments |-> MAX_TRAIL_SEGMENTS, lastDistance |-> 0, satellitePosition |-> FALSE]

\* The values of i visited by for (let i = -lodSegments / 2; i < lodSegments / 2;
\* i++), doubled: for an odd count they are the odd numbers -n, ..., n - 2.
TrailOffsets(n) == [j \in 1..n |-> 2 * (j - 1) - n]

\* trailData of useMemo: the points by the (doubled) offset they were sampled
\* at, and whether currentPosition is a point.  The propagator's outcome over
\* the trail's window is taken to be its outcome at the current time; a
\* failed sample adds no point.
trailData(s, n) ==
    IF \/ n = 0
       \/ ~\E i \in 1..Len(s.satellites) : s.satellites[i] = s.selectedSatellite
    THEN [points |-> <<>>, currentPosition |-> FALSE]
    ELSE LET points ==
                 SelectSeq(TrailOffsets(n),
                           LAMBDA i : PropagateOutcome(s.selectedSatellite,
                                                       s.currentTime) = "ok")
         IN [points |-> points,
             currentPosition |-> \E j \in 1..Len(points) : points[j] = 0]

\* trailData.currentPosition is a point: the selected object is in the
\* catalog, the sample loop runs through i = 0 (lodSegments even and not 0)
\* and the propagation at the current time yields a position.
HasCurrentPosition(s, tr) == trailData(s, tr.lodSegments).currentPosition

\* The render of SatelliteTrails: useMemo recomputes trailData and the effect
\* stores its currentPosition in satellitePositionRef when it is not null.
TrailsAfterRender(s, tr) ==
    IF HasCurrentPosition(s, tr) THEN [tr EXCEPT !.satellitePosition = TRUE] ELSE tr

\* SatelliteTrails.useFrame without the LOD_UPDATE_THRESHOLD check.
LodFrameEveryTick(tr, s, distance) ==
    IF ~s.showTrails \/ s.selectedSatellite = NULL \/ ~tr.satellitePosition THEN tr
    ELSE [tr EXCEPT !.lastDistance = distance,
                    !.lodSegments = NewSegments(distance)]

\* SatelliteTrails.useFrame for a camera-to-object distance.
LodFrame(tr, s, distance) ==
    IF ~s.showTrails \/ s.selectedSatellite = NULL \/ ~tr.satellitePosition THEN tr
    ELSE IF Abs(distance - tr.lastDistance) < LOD_UPDATE_THRESHOLD THEN tr
    ELSE [tr EXCEPT !.lastDistance = distance,
                    !.lodSegments = NewSegments(distance)]

-----------------------------------------------------------------------------
(* TimeControls: the clock interval and its closure *)

\* The values of the render whose effect created the running interval.
ClockClosure(s) ==
    [isPaused |-> s.isPaused, currentTime |-> s.currentTime, timeSpeed |-> s.timeSpeed]

ClockEffectOnPauseOnly(old, new, cl) ==
    IF new.isPaused # old.isPaused THEN ClockClosure(new) ELSE cl

\* The clock effect, deps [isPaused, currentTime, timeSpeed, setCurrentTime]
\* (the latter never changes): when one of them changes the cleanup clears the
\* interval and the effect creates one whose callback closes over the new
\* values.
ClockEffect(old, new, cl) ==
    IF \/ new.isPaused # old.isPaused
       \/ new.currentTime # old.currentTime
       \/ new.timeSpeed # old.timeSpeed
    THEN ClockClosure(new)
    ELSE cl

\* The interval's callback:
\* if (!isPaused) setCurrentTime(new Date(currentTime.getTime() + 100 * timeSpeed)),
\* in periods of 100 ms.
ClockCallback(s, cl) ==
    IF cl.isPaused THEN s ELSE setCurrentTime(s, cl.currentTime + cl.timeSpeed)

-----------------------------------------------------------------------------
(* Scene: the interval of the periodic search *)

SCENE_INTERVAL == 2000

\* Scene before its effect has run.  `armed' is whether the interval exists,
\* `due' the milliseconds until it fires next; `elapsed' records the
\* milliseconds since it was created or last fired and `clock' the wall clock
\* since the mount.
InitInterval == [armed |-> FALSE, due |-> 0, elapsed |-> 0, clock |-> 0]

IntervalEffectKeepsInterval(old, new, iv) ==
    IF new.closestSatelliteMode = old.closestSatelliteMode \/ iv.armed THEN iv
    ELSE [iv EXCEPT !.armed = TRUE, !.due = SCENE_INTERVAL, !.elapsed = 0]

\* Scene's interval effect, deps [closestSatelliteMode, findClosestSatellite]
\* (the latter never changes): when closestSatelliteMode changes the cleanup
\* clears the interval and the effect creates one if the mode is on.
IntervalEffect(old, new, iv) ==
    IF new.closestSatelliteMode = old.closestSatelliteMode THEN iv
    ELSE IF new.closestSatelliteMode
    THEN [iv EXCEPT !.armed = TRUE, !.due = SCENE_INTERVAL, !.elapsed = 0]
    ELSE [iv EXCEPT !.armed = FALSE, !.due = 0, !.elapsed = 0]

-----------------------------------------------------------------------------
(* MotionTrails: the recorded trails of the selected and the visited object *)

MAX_TRAIL_POINTS == 100
TRAIL_LIFETIME == 10000     \* ms

\* trailData: id -> the timestamps of the trail's points, oldest first; now is
\* performance.now() of the last frame.
InitMotionTrails == [trailData |-> EmptyMap, now |-> 0]

\* The ids the frame keeps trails for.
satellitesWithTrails(s) ==
    (IF s.selectedSatellite # NULL THEN {s.selectedSatellite} ELSE {})
      \cup (IF s.visitedObject # NULL /\ s.visitedObject # EARTH
            THEN {s.visitedObject} ELSE {})

ValidPointsByAgeOnly(trail, now) ==
    SelectSeq(trail, LAMBDA timestamp : timestamp > now - TRAIL_LIFETIME)

\* trail.filter(point => point.timestamp > cutoffTime), then the splice that
\* keeps the last MAX_TRAIL_POINTS.
ValidPoints(trail, now) ==
    LET validPoints == SelectSeq(trail, LAMBDA timestamp : timestamp > now - TRAIL_LIFETIME)
    IN IF Len(validPoints) > MAX_TRAIL_POINTS
       THEN SubSeq(validPoints, Len(validPoints) - MAX_TRAIL_POINTS + 1, Len(validPoints))
       ELSE validPoints

\* The trail of satId after the frame at time now: unchanged, or absent, when
\* the lookup yields nothing.
UpdatedTrail(s, buf, data, satId, now) ==
    IF getRealtimePosition(s, buf, satId) = None THEN MapGet(data, satId)
    ELSE LET trail == IF satId \in DOMAIN data THEN data[satId] ELSE <<>>
         IN Some(ValidPoints(Append(trail, now), now))

\* The body of useFrame: the forEach over satellitesWithTrails, then the
\* deletion of every other trail.
MotionFrame(s, buf, mt, now) ==
    LET tracked == satellitesWithTrails(s)
        kept == {satId \in tracked : UpdatedTrail(s, buf, mt.trailData, satId, now) # None}
    IN [trailData |-> [satId \in kept |->
                          UpdatedTrail(s, buf, mt.trailData, satId, now)[1]],
        now |-> now]

-----------------------------------------------------------------------------
(* TLEService: the server's catalog cache and its updates *)

\* The categories fetched by an update, in order.
Categories == <<"Space Station", "Weather", "Communications", "Navigation">>

\* initializeWithSampleData: noradId -> category.
SampleData ==
    [noradId \in {"25544", "44713", "28654", "20580", "20959"} |->
        IF noradId = "25544" THEN "Space Station"
        ELSE IF noradId = "44713" THEN "Communications"
        ELSE IF noradId = "28654" THEN "Weather"
        ELSE IF noradId = "20580" THEN "Space Telescope"
        ELSE "Navigation"]

\* The objects a category's response can hold: none, one of the cache, a new one.
Responses == {{}, {"25544"}, {"90001"}}

\* A response holding one object that the cache lacks.
NewObject == {{"90001"}}

\* What the awaits of one category can come to: a response that is ok and
\* whose text is read, a response that is not ok, a rejected fetch or text.
FetchOutcomes == {"ok", "http", "rejects"}

\* The same, and a log call that throws.
FetchOutcomesFaulty == {"ok", "http", "rejects", "throws"}

\* parseTLEData(data, category): tleCache.set for every object of the data.
parseTLEData(tleCache, noradIds, category) ==
    [noradId \in (DOMAIN tleCache) \cup noradIds |->
        IF noradId \in noradIds THEN category ELSE tleCache[noradId]]

GuardAlwaysPasses(sv) == TRUE

\* if (this.updateInProgress) { ...; return; }
GuardPasses(sv) == ~sv.updateInProgress

\* fetchLatestTLEs up to its first await: the execution of call `call', about
\* to fetch its first category.  results records the outcome of each category.
StartUpdate(sv, call) ==
    [sv EXCEPT !.updateInProgress = TRUE,
               !.running = @ \cup {[call |-> call, category |-> 1,
                                    fetchSuccessful |-> FALSE, results |-> <<>>,
                                    before |-> [tleCache |-> sv.tleCache,
                                                lastUpdate |-> sv.lastUpdate]]}]

\* A call of fetchLatestTLEs, the call-th of the service.
fetchLatestTLEs(sv, call) ==
    IF GuardPasses(sv)
    THEN [StartUpdate(sv, call) EXCEPT !.calls = call,
                                       !.last = [op |-> "started", call |-> call]]
    ELSE [sv EXCEPT !.calls = call, !.last = [op |-> "skipped", call |-> call]]

LastUpdateAlwaysSet(sv, exec) == sv.now

\* if (fetchSuccessful) { this.lastUpdate = new Date(); }
LastUpdateAfter(sv, exec) == IF exec.fetchSuccessful THEN sv.now ELSE sv.lastUpdate

FlagKeptOnThrow(sv, result) == result = "thrown"

\* finally { this.updateInProgress = false; }
FlagAfter(sv, result) == FALSE

\* The end of an execution: after the loop, or by the throw of the outer catch.
Finish(sv, exec, result) ==
    [sv EXCEPT !.lastUpdate = IF result = "returned" THEN LastUpdateAfter(sv, exec) ELSE @,
               !.updateInProgress = FlagAfter(sv, result),
               !.running = @ \ {e \in @ : e.call = exec.call},
               !.last = [op |-> "finished", call |-> exec.call, result |-> result,
                         fetchSuccessful |-> exec.fetchSuccessful,
                         results |-> exec.results, before |-> exec.before]]

\* One turn of the loop over the categories for execution exec: the awaits of
\* the category come to `outcome' (a response holding noradIds when ok) one
\* clock unit later; after the last category the execution finishes in the
\* same turn.  The two awaits of a category are one step: nothing but the
\* guard of other calls can run between them.
CategoryStep(sv, exec, outcome, noradIds) ==
    LET after == [exec EXCEPT !.category = @ + 1,
                              !.fetchSuccessful = @ \/ outcome = "ok",
                              !.results = Append(@, outcome)]
        written == [sv EXCEPT !.now = @ + 1,
                              !.tleCache = IF outcome = "ok"
                                           THEN parseTLEData(@, noradIds,
                                                             Categories[exec.category])
                                           ELSE @,
                              !.running = (@ \ {exec}) \cup {after},
                              !.last = [op |-> "category", call |-> exec.call]]
    IN IF outcome = "throws" THEN Finish(written, after, "thrown")
       ELSE IF after.category > Len(Categories) THEN Finish(written, after, "returned")
       ELSE written

\* The service constructed: the sample data cached, lastUpdate set, and the
\* constructor's own fetchLatestTLEs() suspended at its first fetch.
InitServer ==
    fetchLatestTLEs([tleCache |-> SampleData, lastUpdate |-> 0, updateInProgress |-> FALSE,
                     running |-> {}, calls |-> 0, now |-> 0,
                     last |-> [op |-> "none", call |-> 0]], 1)

-----------------------------------------------------------------------------
(* Initial state: the application mounted, the catalog fetch in flight *)

Init ==
    /\ store = setRealtimePositionGetter(InitStore, TRUE)
    /\ localPositionBuffer = EmptyMap
    /\ frameCounter = 0
    /\ pendingFind = 0
    /\ cam = ModeEffect(InitStore, EmptyMap, InitCamera)
    /\ trails = InitTrails
    /\ arduino = InitArduino
    /\ fetchState = "pending"
    /\ interval = InitInterval
    /\ clock = ClockClosure(store)
    /\ motionTrails = InitMotionTrails
    /\ server = InitServer
    /\ lastOp = "mount"

-----------------------------------------------------------------------------
(* Actions *)

\* The store after a handler, with the re-render it causes.
\* A store update `new' followed by the render and the effects it causes;
\* `iv' is the interval as the handler leaves it.
CommitWith(op, new, iv) ==
    /\ store' = new
    /\ cam' = AfterRender(store, new, localPositionBuffer, cam)
    /\ trails' = TrailsAfterRender(new, trails)
    /\ interval' = IntervalEffect(store, new, iv)
    /\ clock' = ClockEffect(store, new, clock)
    /\ arduino' = arduino
    /\ lastOp' = op

Commit(op, new) == CommitWith(op, new, interval)

\* SatelliteDetails renders its panel only for a selected catalog object.
DetailsShown ==
    /\ store.selectedSatellite # NULL
    /\ \E i \in 1..Len(store.satellites) : store.satellites[i] = store.selectedSatellite

\* Scene.fetchSatellites resolves: setSatellites(data.satellites.slice(0, 2000)).
FetchResolved ==
    /\ fetchState = "pending"
    /\ store.satellites = <<>>
    /\ Commit("FetchResolved", setSatellites(store, Catalog))
    /\ fetchState' = "resolved"
    /\ UNCHANGED <<server, motionTrails, localPositionBuffer, frameCounter, pendingFind>>

\* Scene fetchSatellites: the request fails, the response is not JSON or it
\* carries no satellites array; the catch logs and sets nothing.
FetchFailed ==
    /\ fetchState = "pending"
    /\ fetchState' = "failed"
    /\ lastOp' = "FetchFailed"
    /\ UNCHANGED <<server, motionTrails, store, localPositionBuffer, frameCounter,
                   pendingFind, cam, trails,
                   arduino, interval, clock>>

\* SatelliteList row onClick.
SelectRow(id) ==
    /\ \E i \in 1..Len(store.satellites) : store.satellites[i] = id
    /\ Commit("SelectRow", setSelectedSatellite(store, id))
    /\ UNCHANGED <<server, motionTrails, localPositionBuffer, frameCounter, pendingFind,
                   fetchState>>

\* SatelliteList Visit button onClick.
ListVisit(id) ==
    /\ \E i \in 1..Len(store.satellites) : store.satellites[i] = id
    /\ Commit("ListVisit",
              IF store.visitedObject = id
              THEN setVisitedObject(store, NULL)
              ELSE setSelectedSatellite(setVisitedObject(store, id), id))
    /\ UNCHANGED <<server, motionTrails, localPositionBuffer, frameCounter, pendingFind,
                   fetchState>>

\* SatelliteList Follow button onClick.
FollowButton(id) ==
    /\ \E i \in 1..Len(store.satellites) : store.satellites[i] = id
    /\ Commit("FollowButton",
              setFollowedSatellite(store, IF store.followedSatellite = id
                                          THEN NULL ELSE id))
    /\ UNCHANGED <<server, motionTrails, localPositionBuffer, frameCounter, pendingFind,
                   fetchState>>

\* SatelliteDetails close button.
DetailsClose ==
    /\ DetailsShown
    /\ Commit("DetailsClose", setSelectedSatellite(store, NULL))
    /\ UNCHANGED <<server, motionTrails, localPositionBuffer, frameCounter, pendingFind,
                   fetchState>>

handleVisit(s) ==
    IF s.visitedObject = s.selectedSatellite
    THEN setVisitedObject(s, NULL)
    ELSE setVisitedObject(s, s.selectedSatellite)

\* The Visit button of the panel is disabled while compare mode is on.
VisitButtonEnabled(s) == ~s.closestSatelliteMode

\* SatelliteDetails Visit button.
DetailsVisit ==
    /\ DetailsShown
    /\ VisitButtonEnabled(store)
    /\ Commit("DetailsVisit", handleVisit(store))
    /\ UNCHANGED <<server, motionTrails, localPositionBuffer, frameCounter, pendingFind,
                   fetchState>>

handleClosestSatelliteKeepsVisit(s) ==
    IF s.closestSatelliteMode
    THEN disableClosestSatelliteMode(s)
    ELSE enableClosestSatelliteMode(s)

\* handleClosestSatellite, with visitedObject read from the render the handler
\* closes over.
handleClosestSatellite(s) ==
    IF s.closestSatelliteMode
    THEN disableClosestSatelliteMode(s)
    ELSE IF s.visitedObject # NULL
         THEN setVisitedObject(enableClosestSatelliteMode(s), NULL)
         ELSE enableClosestSatelliteMode(s)

\* SatelliteDetails Find Closest Satellite button.  Enabling arms the 100 ms
\* one-shot timer, which nothing ever clears.
DetailsClosest ==
    /\ DetailsShown
    /\ LET arms == ~store.closestSatelliteMode /\ ArmsFindTimer(store)
       IN /\ arms => pendingFind < MaxPending
          /\ pendingFind' = IF arms THEN pendingFind + 1 ELSE pendingFind
    /\ Commit("DetailsClosest", handleClosestSatellite(store))
    /\ UNCHANGED <<server, motionTrails, localPositionBuffer, frameCounter, fetchState>>

EarthClickKeepsSelection ==
    /\ Commit("EarthClick", setVisitedObject(store, EARTH))
    /\ UNCHANGED <<server, motionTrails, localPositionBuffer, frameCounter, pendingFind,
                   fetchState>>

\* Earth mesh onClick (handleEarthClick).
EarthClick ==
    /\ Commit("EarthClick", setSelectedSatellite(setVisitedObject(store, EARTH), NULL))
    /\ UNCHANGED <<server, motionTrails, localPositionBuffer, frameCounter, pendingFind,
                   fetchState>>

\* NavigationControls Visit Earth button, rendered unless Earth is visited.
VisitEarthButton ==
    /\ store.visitedObject # EARTH
    /\ Commit("VisitEarthButton",
              setSelectedSatellite(setVisitedObject(store, EARTH), NULL))
    /\ UNCHANGED <<server, motionTrails, localPositionBuffer, frameCounter, pendingFind,
                   fetchState>>

\* NavigationControls Return to Overview button, rendered while visiting.
ReturnToOverview ==
    /\ store.visitedObject # NULL
    /\ Commit("ReturnToOverview",
              setSelectedSatellite(setVisitedObject(store, NULL), NULL))
    /\ UNCHANGED <<server, motionTrails, localPositionBuffer, frameCounter, pendingFind,
                   fetchState>>

\* The store actions called directly, in any state of the store.
ApiEnable ==
    /\ LET arms == ArmsFindTimer(store)
       IN /\ arms => pendingFind < MaxPending
          /\ pendingFind' = IF arms THEN pendingFind + 1 ELSE pendingFind
    /\ Commit("enableClosestSatelliteMode", enableClosestSatelliteMode(store))
    /\ UNCHANGED <<server, motionTrails, localPositionBuffer, frameCounter, fetchState>>

ApiDisable ==
    /\ Commit("disableClosestSatelliteMode", disableClosestSatelliteMode(store))
    /\ UNCHANGED <<server, motionTrails, localPositionBuffer, frameCounter, pendingFind,
                   fetchState>>

ApiSelect(noradId) ==
    /\ Commit("setSelectedSatellite", setSelectedSatellite(store, noradId))
    /\ UNCHANGED <<server, motionTrails, localPositionBuffer, frameCounter, pendingFind,
                   fetchState>>

ApiVisit(object) ==
    /\ Commit("setVisitedObject", setVisitedObject(store, object))
    /\ UNCHANGED <<server, motionTrails, localPositionBuffer, frameCounter, pendingFind,
                   fetchState>>

\* The 100 ms one-shot timer of enableClosestSatelliteMode fires.
FindTimerFires ==
    /\ pendingFind > 0
    /\ pendingFind' = pendingFind - 1
    /\ Commit("FindTimerFires", findClosestSatellite(store, localPositionBuffer))
    /\ UNCHANGED <<server, motionTrails, localPositionBuffer, frameCounter, fetchState>>

\* Milliseconds left on the interval when it fires: the specifications that
\* leave the wall clock aside let the whole period elapse within the step, the
\* cadence specification fires the interval when AdvanceTime has used it up.
PeriodElapsing == {SCENE_INTERVAL}
PeriodElapsed == {0}

\* The 2 s interval of Scene fires and is due again a period later.
IntervalFires(left) ==
    /\ interval.armed
    /\ interval.due \in left
    /\ CommitWith("IntervalFires", findClosestSatellite(store, localPositionBuffer),
                  [interval EXCEPT !.due = SCENE_INTERVAL, !.elapsed = 0])
    /\ UNCHANGED <<server, motionTrails, localPositionBuffer, frameCounter, pendingFind,
                   fetchState>>

\* Wall-clock time passes, by one of the `steps' and not beyond the moment the
\* interval is due.
AdvanceTime(steps) ==
    /\ \E dt \in steps :
          /\ interval.clock + dt <= MaxIntervalClock
          /\ interval.armed => dt <= interval.due
          /\ interval' = IF interval.armed
                         THEN [interval EXCEPT !.clock = @ + dt, !.due = @ - dt,
                                               !.elapsed = @ + dt]
                         ELSE [interval EXCEPT !.clock = @ + dt]
    /\ lastOp' = "AdvanceTime"
    /\ UNCHANGED <<server, motionTrails, store, localPositionBuffer, frameCounter,
                   pendingFind, cam, trails,
                   arduino, fetchState, clock>>

FrameRunsAlways(s) == TRUE

\* The guard of Satellites.useFrame: the mesh is rendered, and satelliteData
\* is not empty, exactly when the catalog is not empty.
FrameRuns(s) == Len(s.satellites) # 0

\* One render tick of Satellites.useFrame; `cap' bounds the frames explored.
\* The callback is subscribed while Satellites is mounted, which is while its
\* effect has the getter registered.
SatellitesFrame(cap, elapsed, outcomes) ==
    /\ frameCounter < cap
    /\ store.realtimePositionGetter
    /\ lastOp' = "SatellitesFrame"
    /\ \E dt \in elapsed, outcome \in outcomes :
          LET now == arduino.now + dt
          IN /\ now <= MaxWallClock
             /\ IF ~FrameRuns(store)
                THEN /\ arduino' = [arduino EXCEPT !.now = now, !.tick = "none"]
                     /\ UNCHANGED <<store, localPositionBuffer, frameCounter>>
                ELSE LET counter == frameCounter + 1
                         buf == PropagateAll(localPositionBuffer, store.satellites, 1,
                                             store.currentTime,
                                             Thrower(store, arduino, now, outcome))
                     IN /\ frameCounter' = counter
                        /\ localPositionBuffer' = buf
                        /\ arduino' = TrackingBlock(store, arduino, now, outcome)
                        /\ store' = IF ShouldUpdateZustand(counter)
                                    THEN SyncPositions(store, buf, store.satellites, 1)
                                    ELSE store
    /\ UNCHANGED <<server, motionTrails, pendingFind, cam, trails, fetchState, interval, clock>>

\* The user zooms with the OrbitControls: the camera is moved along its
\* direction from the look-at point to one of the distances `ds', which lie
\* within the limits the controls are rendered with.  The zooms explored are
\* those that start from the pose the last transition ended in.
UserDolly(ds) ==
    /\ ~cam.position.nan /\ ~cam.target.nan
    /\ ~cam.isTransitioning
    /\ cam.position = cam.targetPosition
    /\ \E d \in ds :
          /\ getMinDistance(cam) <= d /\ d <= getMaxDistance(cam)
          /\ LET dir == VNormalize(Vec(cam.position.x - cam.target.x,
                                       cam.position.y - cam.target.y,
                                       cam.position.z - cam.target.z))
             IN cam' = [cam EXCEPT !.position = VAdd(cam.target, VScaleUnit(dir, d))]
    /\ lastOp' = "UserDolly"
    /\ UNCHANGED <<server, motionTrails, store, localPositionBuffer, frameCounter,
                   pendingFind, trails, arduino,
                   fetchState, interval, clock>>

\* Scene is unmounted: the cleanup of Satellites' effect unregisters the
\* getter and the cleanup of Scene's effect clears the interval; the one-shot
\* timers of enableClosestSatelliteMode are not cleared.
SceneUnmount ==
    /\ store.realtimePositionGetter
    /\ store' = setRealtimePositionGetter(store, FALSE)
    /\ interval' = [interval EXCEPT !.armed = FALSE, !.due = 0, !.elapsed = 0]
    /\ lastOp' = "SceneUnmount"
    /\ UNCHANGED <<server, motionTrails, localPositionBuffer, frameCounter, pendingFind,
                   cam, trails, arduino,
                   fetchState, clock>>

\* One render tick of CameraController.useFrame; `steps' are the progress
\* increments (delta * 1.2, in tenths) explored.
CameraFrameStep(steps) ==
    /\ \E step \in steps :
          cam' = CameraFrame(cam, store, localPositionBuffer, step)
    /\ lastOp' = "CameraFrame"
    /\ UNCHANGED <<server, motionTrails, store, localPositionBuffer, frameCounter,
                   pendingFind, trails, arduino,
                   fetchState, interval, clock>>

\* One render tick of MotionTrails.useFrame, `elapsed' ms after the previous
\* one.  The group exists while showTrails is set and the scene is mounted.
MotionTrailsFrame(elapsed) ==
    /\ store.showTrails
    /\ store.realtimePositionGetter
    /\ \E e \in elapsed :
          /\ motionTrails.now + e <= MaxMotionClock
          /\ motionTrails' = MotionFrame(store, localPositionBuffer, motionTrails,
                                         motionTrails.now + e)
    /\ lastOp' = "MotionTrailsFrame"
    /\ UNCHANGED <<server, store, localPositionBuffer, frameCounter, pendingFind, cam, trails,
                   arduino, fetchState, interval, clock>>

\* SatelliteDetails: the Show / Hide Orbital Trail button.
ToggleTrails ==
    /\ DetailsShown
    /\ Commit("ToggleTrails", toggleTrails(store))
    /\ UNCHANGED <<server, motionTrails, localPositionBuffer, frameCounter, pendingFind,
                   fetchState>>

\* The cron job fires or a POST /api/satellites/refresh arrives: a call of
\* fetchLatestTLEs.
UpdateRequested ==
    /\ server.calls < MaxCalls
    /\ server' = fetchLatestTLEs(server, server.calls + 1)
    /\ lastOp' = "UpdateRequested"
    /\ UNCHANGED <<store, localPositionBuffer, frameCounter, pendingFind, cam, trails,
                   arduino, fetchState, interval, clock, motionTrails>>

\* The awaits of a running execution's current category settle.
CategoryFetched(outcomes, responses) ==
    /\ \E exec \in server.running, outcome \in outcomes :
          \E noradIds \in (IF outcome = "ok" THEN responses ELSE {{}}) :
             server' = CategoryStep(server, exec, outcome, noradIds)
    /\ lastOp' = "CategoryFetched"
    /\ UNCHANGED <<store, localPositionBuffer, frameCounter, pendingFind, cam, trails,
                   arduino, fetchState, interval, clock, motionTrails>>

\* One of the 100 ms timers of the mode effect fires: the controls take the
\* auto-rotation of the preset the timer was armed for.
PresetTimerFires ==
    /\ cam.presetTimers # <<>>
    /\ cam' = [cam EXCEPT !.autoRotate = PresetAutoRotate(Head(cam.presetTimers)),
                          !.presetTimers = Tail(@)]
    /\ lastOp' = "PresetTimerFires"
    /\ UNCHANGED <<server, motionTrails, store, localPositionBuffer, frameCounter,
                   pendingFind, trails, arduino,
                   fetchState, interval, clock>>

ClockTickIgnoringPause ==
    /\ store.currentTime < MaxTime
    /\ Commit("ClockTick", setCurrentTime(store, store.currentTime + store.timeSpeed))
    /\ UNCHANGED <<server, motionTrails, localPositionBuffer, frameCounter, pendingFind,
                   fetchState>>

\* One render tick of SatelliteTrails.useFrame, with the camera (moved by the
\* user's zoom and orbit or by the camera controller) at one of the distances
\* explored from the selected object's recorded position.
TrailsFrame ==
    /\ \E k \in 0..MaxLodSteps :
          trails' = TrailsAfterRender(store, LodFrame(trails, store, k * LodStep))
    /\ lastOp' = "TrailsFrame"
    /\ UNCHANGED <<server, motionTrails, store, localPositionBuffer, frameCounter,
                   pendingFind, cam, arduino,
                   fetchState, interval, clock>>

\* The 100 ms interval of TimeControls fires.
ClockTick ==
    /\ store.currentTime < MaxTime
    /\ Commit("ClockTick", ClockCallback(store, clock))
    /\ UNCHANGED <<server, motionTrails, localPositionBuffer, frameCounter, pendingFind,
                   fetchState>>

\* The speed presets explored, of speedPresets = [1, 10, 50, 100, 500].
SpeedPresets == {1, 10, 50}

\* TimeControls speed button onClick.
SetSpeed ==
    /\ \E speed \in SpeedPresets : Commit("SetSpeed", setTimeSpeed(store, speed))
    /\ UNCHANGED <<server, motionTrails, localPositionBuffer, frameCounter, pendingFind,
                   fetchState>>

\* TimeControls play / pause button (togglePause).
TogglePause ==
    /\ Commit("TogglePause", togglePause(store))
    /\ UNCHANGED <<server, motionTrails, localPositionBuffer, frameCounter, pendingFind,
                   fetchState>>

\* TimeControls reset button (handleReset): the wall-clock time, speed 1,
\* running.
TimeReset ==
    /\ \E now \in 0..MaxTime :
          Commit("TimeReset",
                 setPaused(setTimeSpeed(setCurrentTime(store, now), 1), FALSE))
    /\ UNCHANGED <<server, motionTrails, localPositionBuffer, frameCounter, pendingFind,
                   fetchState>>

\* SatelliteDetails.formatDistance(km) for km = v tenths: metres below 1 km,
\* kilometres (kept in tenths) from 1 km on.
formatDistance(v) ==
    IF v < 10 THEN [value |-> v * 100, unit |-> "m"]
    ELSE [value |-> v, unit |-> "km/10"]

\* The length a formatted distance tells the user, in metres.
MetresShown(f) == IF f.unit = "m" THEN f.value ELSE f.value * 100

-----------------------------------------------------------------------------
(* The detector on static snapshots *)

\* A buffered sample at scene point (x, y, z).
SamplePoint(x, y, z) ==
    [nan |-> FALSE, x |-> x, y |-> y, z |-> z, lat |-> 0, lon |-> 0, alt |-> 0,
     velocity |-> 7]

\* Samples a snapshot may hold: a point ten units from the Earth's centre,
\* two points at distance 5 (tenths) from it, one at distance 12, and the
\* NaN sample of a decayed object.
SnapshotPoints ==
    {SamplePoint(60, 80, 0), SamplePoint(63, 84, 0), SamplePoint(63, 76, 0),
     SamplePoint(60, 80, 12), NaNSample}

\* The buffers explored: any subset of the catalog, each at any of the points.
Snapshots == UNION {[D -> SnapshotPoints] : D \in SUBSET Ids}

\* The result fields a call may find in the store: none yet, or an earlier one.
PriorResults ==
    {[mode |-> FALSE, id |-> NULL, distance |-> None],
     [mode |-> TRUE, id |-> NULL, distance |-> None],
     [mode |-> TRUE, id |-> "s3", distance |-> Some(7)]}

\* A store with the catalog loaded, any selection, the getter registered or
\* not, the observable copy empty or synchronised, over any snapshot.
DetectorInit ==
    /\ localPositionBuffer \in Snapshots
    /\ \E sel \in Ids \cup {NULL}, getter \in BOOLEAN, prior \in PriorResults,
          synced \in BOOLEAN :
          store = [InitStore EXCEPT
                     !.satellites = Catalog,
                     !.selectedSatellite = sel,
                     !.realtimePositionGetter = getter,
                     !.satellitePositions =
                         IF synced THEN localPositionBuffer ELSE EmptyMap,
                     !.closestSatelliteMode = prior.mode,
                     !.closestSatelliteId = prior.id,
                     !.closestSatelliteDistance = prior.distance]
    /\ frameCounter = 0
    /\ pendingFind = 0
    /\ cam = InitCamera
    /\ trails = InitTrails
    /\ arduino = InitArduino
    /\ fetchState = "resolved"
    /\ interval = IntervalEffect(InitStore, store, InitInterval)
    /\ clock = ClockClosure(store)
    /\ motionTrails = InitMotionTrails
    /\ server = InitServer
    /\ lastOp = "snapshot"

\* A call of findClosestSatellite (from the one-shot timer or the interval).
DetectorFind ==
    /\ store' = findClosestSatellite(store, localPositionBuffer)
    /\ lastOp' = "findClosestSatellite"
    /\ UNCHANGED <<server, motionTrails, localPositionBuffer, frameCounter, pendingFind,
                   cam, trails, arduino,
                   fetchState, interval, clock>>

-----------------------------------------------------------------------------
(* Specifications *)

Intent ==
    \/ \E id \in Ids : SelectRow(id)
    \/ \E id \in Ids : ListVisit(id)
    \/ DetailsClose
    \/ DetailsVisit
    \/ DetailsClosest
    \/ EarthClick
    \/ VisitEarthButton
    \/ ReturnToOverview

\* Interaction: user intents, the detector's timers, the render ticks.
Next ==
    \/ FetchResolved
    \/ Intent
    \/ FindTimerFires
    \/ IntervalFires(PeriodElapsing)
    \/ SatellitesFrame(MaxFrames, SameInstant, SendReturns)
    \/ CameraFrameStep({MaxDelta})

Spec == Init /\ [][Next]_vars

\* The camera state machine under the intents that reach its four steady
\* states: selection, visits from the list, compare mode and its timer, with
\* the frames that fill the position buffer.
CameraNext ==
    \/ FetchResolved
    \/ SelectRow(Catalog[1])
    \/ ListVisit(Catalog[2])
    \/ DetailsClosest
    \/ FindTimerFires
    \/ SatellitesFrame(MaxFrames, SameInstant, SendReturns)
    \/ CameraFrameStep({MaxDelta})

CameraSpec == Init /\ [][CameraNext]_vars


\* The store and its handlers alone: no camera frame is rendered.
StoreNext ==
    \/ FetchResolved
    \/ Intent
    \/ FindTimerFires
    \/ IntervalFires(PeriodElapsing)
    \/ SatellitesFrame(MaxFrames, SameInstant, SendReturns)

StoreSpec == Init /\ [][StoreNext]_vars

\* The position pipeline: render ticks, the clock, selection changes.
SyncNext ==
    \/ FetchResolved
    \/ SatellitesFrame(MaxSyncFrames, SameInstant, SendReturns)
    \/ ClockTick
    \/ SelectRow(Catalog[1])
    \/ DetailsClose

SyncSpec == Init /\ [][SyncNext]_vars

\* The camera between its two fixed presets, under every frame time explored.
TransitionNext ==
    \/ CameraFrameStep(1..MaxDelta)
    \/ EarthClick
    \/ ReturnToOverview

\* The render loop keeps calling useFrame.
TransitionSpec ==
    Init /\ [][TransitionNext]_vars /\ WF_vars(CameraFrameStep(1..MaxDelta))

\* The clock and the pipeline: firings of the clock timer, pause and reset,
\* render ticks.
PauseNext ==
    \/ FetchResolved
    \/ SatellitesFrame(MaxPauseFrames, SameInstant, SendReturns)
    \/ ClockTick
    \/ TogglePause
    \/ TimeReset

PauseSpec == Init /\ [][PauseNext]_vars

\* The store driven through its actions, whatever the caller.
ApiNext ==
    \/ FetchResolved
    \/ ApiEnable
    \/ ApiDisable
    \/ \E noradId \in Ids \cup {NULL} : ApiSelect(noradId)
    \/ \E object \in Ids \cup {NULL, EARTH} : ApiVisit(object)
    \/ FindTimerFires
    \/ SatellitesFrame(MaxFrames, SameInstant, SendReturns)

ApiSpec == Init /\ [][ApiNext]_vars

\* The camera with the second catalog object followed or not, under visits of
\* the Earth and compare requests on the first catalog object.
FollowNext ==
    \/ FetchResolved
    \/ (frameCounter = 0 /\ SatellitesFrame(MaxFrames, SameInstant, SendReturns))
    \/ (store.followedSatellite = NULL /\ FollowButton(Catalog[2]))
    \/ (store.selectedSatellite = NULL /\ SelectRow(Catalog[1]))
    \/ DetailsClosest
    \/ FindTimerFires
    \/ EarthClick
    \/ ReturnToOverview
    \/ CameraFrameStep({MaxDelta})

FollowSpec == Init /\ [][FollowNext]_vars

\* The trail's level of detail: selections and camera distances.
LodNext ==
    \/ FetchResolved
    \/ \E id \in Ids : SelectRow(id)
    \/ DetailsClose
    \/ TrailsFrame

LodSpec == Init /\ [][LodNext]_vars

\* The pointing hardware: selections, and frames spread over the wall clock
\* whose sends return.
ArduinoNext ==
    \/ FetchResolved
    \/ \E id \in Ids : SelectRow(id)
    \/ DetailsClose
    \/ SatellitesFrame(MaxSendFrames, FrameTimes, SendReturns)

ArduinoSpec == Init /\ [][ArduinoNext]_vars

\* The pointing hardware with sends that fail.
ArduinoFaultNext ==
    \/ FetchResolved
    \/ \E id \in Ids : SelectRow(id)
    \/ DetailsClose
    \/ SatellitesFrame(MaxSendFrames, FrameTimes, SendOutcomes)

ArduinoFaultSpec == Init /\ [][ArduinoFaultNext]_vars

\* The catalog fetch: it resolves or fails, while frames run and the intents
\* that need no catalog row are taken.
FetchNext ==
    \/ FetchResolved
    \/ FetchFailed
    \/ SatellitesFrame(MaxFrames, SameInstant, SendReturns)
    \/ \E noradId \in Ids \cup {NULL} : ApiSelect(noradId)
    \/ EarthClick
    \/ ReturnToOverview
    \/ ClockTick

FetchSpec == Init /\ [][FetchNext]_vars

\* The getter's life: frames and syncs, a compare request whose timer is
\* armed, and the unmount that unregisters the getter.
UnmountNext ==
    \/ FetchResolved
    \/ SatellitesFrame(MaxUnmountFrames, SameInstant, SendReturns)
    \/ (frameCounter >= ZUSTAND_UPDATE_INTERVAL /\ store.currentTime = 0 /\ ClockTick)
    \/ (frameCounter >= ZUSTAND_UPDATE_INTERVAL /\ SelectRow(Catalog[1]))
    \/ DetailsClosest
    \/ FindTimerFires
    \/ SceneUnmount

UnmountSpec == Init /\ [][UnmountNext]_vars

\* Wall-clock steps of the cadence specification, in milliseconds.
ClockSteps == {500, 1500}

\* The periodic search: compare mode switched on and off by the panel, the
\* store and a new selection, while wall-clock time passes.
CadenceNext ==
    \/ FetchResolved
    \/ SatellitesFrame(MaxFrames, SameInstant, SendReturns)
    \/ \E id \in {Catalog[1], Catalog[2]} : SelectRow(id)
    \/ DetailsClosest
    \/ ApiEnable
    \/ ApiDisable
    \/ FindTimerFires
    \/ IntervalFires(PeriodElapsed)
    \/ AdvanceTime(ClockSteps)

CadenceSpec == Init /\ [][CadenceNext]_vars

\* Zoom distances of the visit specification, in tenths of a scene unit.
DollyDistances == {10, 45}

\* One visit of an object: the camera travels to it and then tracks it, while
\* the user zooms and, once the camera has arrived, the clock moves the object.
VisitNext ==
    \/ FetchResolved
    \/ SatellitesFrame(MaxVisitFrames, SameInstant, SendReturns)
    \/ (cam.cameraState = "visiting_satellite" /\ ClockTick)
    \/ (store.visitedObject = NULL /\ ListVisit(Catalog[2]))
    \/ CameraFrameStep({MaxDelta})
    \/ UserDolly(DollyDistances)

VisitSpec == Init /\ [][VisitNext]_vars

\* The clock and the controls that act on it.
ClockNext ==
    \/ ClockTick
    \/ TogglePause
    \/ SetSpeed
    \/ TimeReset

ClockSpec == Init /\ [][ClockNext]_vars

\* Camera transitions with their preset timers: the visits and the return that
\* trigger the mode effect, render ticks, and the timers in any order.
RotateNext ==
    \/ FetchResolved
    \/ VisitEarthButton
    \/ ReturnToOverview
    \/ (store.visitedObject = NULL /\ ListVisit(Catalog[1]))
    \/ SatellitesFrame(MaxFrames, SameInstant, SendReturns)
    \/ (cam.isTransitioning /\ CameraFrameStep({MaxDelta}))
    \/ PresetTimerFires

RotateSpec == Init /\ [][RotateNext]_vars


\* Zoom distances tried by the user in Overview, in tenths of a scene unit.
OverviewDistances == {200, 450}

\* Selection changes while no object is visited and compare mode is off.
OverviewNext ==
    \/ FetchResolved
    \/ \E id \in Ids : SelectRow(id)
    \/ DetailsClose
    \/ SatellitesFrame(MaxFrames, SameInstant, SendReturns)
    \/ CameraFrameStep({MaxDelta})
    \/ UserDolly(OverviewDistances)

OverviewSpec == Init /\ [][OverviewNext]_vars


\* Frame spacings of the motion trails: the render loop's, and a long stall.
FrameSpacing == {50}
FrameStall == {4000}

\* Motion trails: the intents that change what is tracked happen early, then
\* the render loop runs; stalls happen while the trails are short.
MotionNext ==
    \/ (motionTrails.now <= 100 /\ FetchResolved)
    \/ (motionTrails.now <= 100 /\ SatellitesFrame(MaxFrames, SameInstant, SendReturns))
    \/ (motionTrails.now <= 100 /\ \E id \in {Catalog[1], Catalog[2]} : SelectRow(id))
    \/ (motionTrails.now <= 100 /\ store.visitedObject = NULL /\ ListVisit(Catalog[2]))
    \/ (motionTrails.now <= 100 /\ VisitEarthButton)
    \/ (motionTrails.now <= 100 /\ DetailsClose)
    \/ (motionTrails.now <= 100 /\ ToggleTrails)
    \/ MotionTrailsFrame(FrameSpacing)
    \/ ((\E satId \in DOMAIN motionTrails.trailData :
             Len(motionTrails.trailData[satId]) <= 3)
          /\ MotionTrailsFrame(FrameStall))

MotionSpec == Init /\ [][MotionNext]_vars


\* The server: update requests in any order with the progress of the running
\* update, every log call returning.
ServerNext ==
    \/ UpdateRequested
    \/ CategoryFetched(FetchOutcomes, Responses)

ServerSpec == Init /\ [][ServerNext]_vars

\* The same with log calls that may throw; the awaits of a running update
\* settle eventually (the fetches time out).
ServerFaultNext ==
    \/ UpdateRequested
    \/ CategoryFetched(FetchOutcomesFaulty, NewObject)

ServerFaultSpec ==
    Init /\ [][ServerFaultNext]_vars /\ WF_vars(CategoryFetched(FetchOutcomesFaulty, NewObject))


\* The detector applied to static snapshots.
DetectorNext == DetectorFind

DetectorSpec == DetectorInit /\ [][DetectorNext]_vars

-----------------------------------------------------------------------------
(* Claims *)

\* C1: a closest-object result is never held while compare mode is off: in
\* every reachable state closestSatelliteMode = false implies that
\* closestSatelliteId and closestSatelliteDistance are null.
C1_NoResultOutsideCompare ==
    ~store.closestSatelliteMode =>
        /\ store.closestSatelliteId = NULL
        /\ store.closestSatelliteDistance = None

\* C2: after every handler that calls setSelectedSatellite (row select, panel
\* close, Earth click, Visit Earth, Return to Overview, and the list's Visit
\* button when it starts a visit), compare mode is off and the closest id and
\* distance are null.
C2_SelectClearsCompare ==
    (\/ lastOp \in {"SelectRow", "DetailsClose", "EarthClick", "VisitEarthButton",
                   "ReturnToOverview"}
     \/ lastOp = "ListVisit" /\ store.visitedObject # NULL) =>
        /\ ~store.closestSatelliteMode
        /\ store.closestSatelliteId = NULL
        /\ store.closestSatelliteDistance = None

\* C2 witness: a row was selected while the one-shot timer of an earlier
\* compare request was still armed.
C2_Witness ==
    /\ lastOp = "SelectRow"
    /\ store.selectedSatellite # NULL
    /\ pendingFind > 0

\* C3: after every user-intent handler, compare mode and a visit are never
\* both active.
C3_VisitXorCompare ==
    ~(store.closestSatelliteMode /\ store.visitedObject # NULL)

\* C3 witness: compare was enabled from the panel and no visit is left.
C3_Witness ==
    /\ lastOp = "DetailsClosest"
    /\ store.closestSatelliteMode
    /\ store.visitedObject = NULL

\* C4: cameraState never changes from one steady state to a different steady
\* state in one step; 'transitioning' lies between.
C4_TransitioningInterposed ==
    [][(cam.cameraState \in SteadyStates /\ cam'.cameraState \in SteadyStates)
          => cam'.cameraState = cam.cameraState]_vars

\* C5: when a transition completes, the camera enters closest_satellite_view
\* only if the transition's target was computed from the compare midpoint, and
\* otherwise enters overview / visiting_earth / visiting_satellite according to
\* visitedObject.
C5_CompletedStateMatchesTarget ==
    [][(cam.isTransitioning /\ ~cam'.isTransitioning) =>
          IF cam'.cameraState = "closest_satellite_view"
          THEN cam.targetPreset = "closest_satellite_view"
          ELSE cam'.cameraState =
                  (IF store.visitedObject = NULL THEN "overview"
                   ELSE IF store.visitedObject = EARTH THEN "visiting_earth"
                   ELSE "visiting_satellite")]_vars

C7_ProgressOnlyWhileTransitioning ==
    cam.isTransitioning <=> cam.cameraState = "transitioning"


\* C8 as stated: every tick increments the frame counter, and exactly on the
\* ticks where the counter mod 60 = 0 every buffer entry is copied into
\* satellitePositions.
C8_EveryTickCounts ==
    [][lastOp' = "SatellitesFrame" =>
          /\ frameCounter' = frameCounter + 1
          /\ IF frameCounter' % ZUSTAND_UPDATE_INTERVAL = 0
             THEN \A id \in DOMAIN localPositionBuffer' :
                     MapGet(store'.satellitePositions, id)
                        = Some(localPositionBuffer'[id])
             ELSE store'.satellitePositions = store.satellitePositions]_vars

\* C8 amended: every tick on which the tracked set is non-empty increments
\* the frame counter, and exactly on those of them where the incremented
\* counter mod 60 = 0 every buffer entry is copied into satellitePositions; a
\* tick on an empty tracked set changes neither the counter, the buffer nor
\* the store.
C8_SyncEverySixtiethFrame ==
    [][lastOp' = "SatellitesFrame" =>
          IF Len(store.satellites) = 0
          THEN UNCHANGED <<frameCounter, localPositionBuffer, store>>
          ELSE /\ frameCounter' = frameCounter + 1
               /\ IF frameCounter' % ZUSTAND_UPDATE_INTERVAL = 0
                  THEN \A id \in DOMAIN localPositionBuffer' :
                          MapGet(store'.satellitePositions, id)
                             = Some(localPositionBuffer'[id])
                  ELSE store'.satellitePositions = store.satellitePositions]_vars

\* C8 witness: the second synchronising tick has just copied a buffer of three
\* entries, one of them changed since the first synchronisation.
C8_Witness ==
    /\ lastOp = "SatellitesFrame"
    /\ frameCounter = 2 * ZUSTAND_UPDATE_INTERVAL
    /\ DOMAIN localPositionBuffer = Ids
    /\ store.satellitePositions = localPositionBuffer
    /\ store.currentTime > 0

\* C9: satellitePositions is written only by a synchronising tick: every other
\* tick and every user intent or clock step leaves it unchanged, so a window of
\* ZUSTAND_UPDATE_INTERVAL ticks holds one write.
C9_OneWritePerWindow ==
    [][store'.satellitePositions # store.satellitePositions =>
          /\ lastOp' = "SatellitesFrame"
          /\ frameCounter' = frameCounter + 1
          /\ frameCounter' % ZUSTAND_UPDATE_INTERVAL = 0]_vars

\* C9 witness: the last tick of a throttle window, with the observable copy
\* lagging behind the buffer.
C9_Witness ==
    /\ lastOp = "SatellitesFrame"
    /\ frameCounter = 2 * ZUSTAND_UPDATE_INTERVAL - 1
    /\ DOMAIN store.satellitePositions # {}
    /\ store.satellitePositions # localPositionBuffer

\* C10: an object whose propagation fails on a tick keeps its buffer entry:
\* after the tick the entry is what it was before the tick.
C10_FailedObjectKeepsSample ==
    [][(lastOp' = "SatellitesFrame" /\ Len(store.satellites) > 0) =>
          \A id \in Ids :
             PropagateOutcome(id, store.currentTime) # "ok" =>
                MapGet(localPositionBuffer', id) = MapGet(localPositionBuffer, id)]_vars


\* C11: a failure while processing one object does not abort the tick: on
\* every tick, whatever subset of the objects fails, the buffer entry of each
\* object that does not fail is its sample for the current simulated time, as
\* it is when no object fails.
C11_FailureIsolated ==
    [][(lastOp' = "SatellitesFrame" /\ Len(store.satellites) > 0) =>
          \A id \in Ids :
             PropagateOutcome(id, store.currentTime) = "ok" =>
                MapGet(localPositionBuffer', id)
                   = Some(SceneSample(Geodetic(id, store.currentTime),
                                      Speed(id, store.currentTime)))]_vars

\* C11 witness: a tick on which the first and the last object of the catalog
\* failed has overwritten the stale sample of the object between them.
C11_Witness ==
    /\ lastOp = "SatellitesFrame"
    /\ store.currentTime = 3
    /\ PropagateOutcome("s1", 3) # "ok" /\ PropagateOutcome("s3", 3) # "ok"
    /\ DOMAIN localPositionBuffer = Ids
    /\ localPositionBuffer["s2"] = SceneSample(Geodetic("s2", 3), Speed("s2", 3))
    /\ localPositionBuffer["s1"] = SceneSample(Geodetic("s1", 2), Speed("s1", 2))


\* C12: while the clock is paused, a firing of the clock timer changes neither
\* the simulated time nor the buffer; every tick leaves the buffer as a
\* further tick at the same simulated time would leave it; and a tick that
\* follows a tick leaves every buffered position as it was.  So, with no reset
\* in between, the positions after tick N+1 are those after tick N.
C12_PausedClockFreezesPositions ==
    /\ [][(store.isPaused /\ lastOp' = "ClockTick") =>
             /\ store'.currentTime = store.currentTime
             /\ localPositionBuffer' = localPositionBuffer]_vars
    /\ [][(lastOp' = "SatellitesFrame" /\ Len(store.satellites) > 0) =>
             /\ store'.currentTime = store.currentTime
             /\ PropagateAll(localPositionBuffer', store.satellites, 1,
                             store.currentTime, NULL) = localPositionBuffer']_vars
    /\ [][(/\ lastOp = "SatellitesFrame" /\ frameCounter > 0
           /\ lastOp' = "SatellitesFrame") =>
             localPositionBuffer' = localPositionBuffer]_vars

\* C12 witness: a third tick has run while the clock is paused at a time after
\* the start, with all three objects buffered.
C12_Witness ==
    /\ lastOp = "SatellitesFrame"
    /\ store.isPaused
    /\ store.currentTime = 4
    /\ frameCounter = 3
    /\ DOMAIN localPositionBuffer = Ids


\* findClosestSatellite cannot answer: nothing is selected, the selected
\* object has no position, the getter is not registered, or no other object
\* has a position at a distance from the selected one.
CannotAnswer(s, buf) ==
    \/ s.selectedSatellite = NULL
    \/ getRealtimePosition(s, buf, s.selectedSatellite) = None
    \/ ~s.realtimePositionGetter
    \/ \A id \in Ids \ {s.selectedSatellite} :
          \/ getRealtimePosition(s, buf, id) = None
          \/ getRealtimePosition(s, buf, id)[1].nan
          \/ getRealtimePosition(s, buf, s.selectedSatellite)[1].nan

\* C13: when findClosestSatellite cannot answer (no selection, no position of
\* the selected object, getter not registered, or no other object with a
\* position), it leaves closestSatelliteId, closestSatelliteDistance and every
\* other store field unchanged.
C13_NoAnswerNoSideEffect ==
    [][(lastOp' = "findClosestSatellite" /\ CannotAnswer(store, localPositionBuffer))
          => store' = store]_vars

\* C13 witness: a call that could not answer, because only the selected
\* object is buffered, has left an earlier result in place.
C13_Witness ==
    /\ lastOp = "findClosestSatellite"
    /\ store.selectedSatellite = "s1"
    /\ store.realtimePositionGetter
    /\ DOMAIN localPositionBuffer = {"s1"}
    /\ store.closestSatelliteId = "s3"
    /\ store.closestSatelliteDistance = Some(7)


\* Position of an object in catalog order.
CatalogIndex(id) == CHOOSE i \in 1..Len(Catalog) : Catalog[i] = id

\* The objects other than the selected one that have a position at a distance
\* from the selected object's position.
Measurable(s, buf) ==
    {id \in Ids \ {s.selectedSatellite} :
        /\ id \in DOMAIN buf
        /\ ~buf[id].nan
        /\ ~buf[s.selectedSatellite].nan}

\* Euclidean distance, rounded down, between two buffered objects.
EuclideanDistance(buf, a, b) ==
    Sqrt((buf[a].x - buf[b].x) * (buf[a].x - buf[b].x)
         + (buf[a].y - buf[b].y) * (buf[a].y - buf[b].y)
         + (buf[a].z - buf[b].z) * (buf[a].z - buf[b].z))

\* C14: on a static snapshot in which the selected object has an entry,
\* findClosestSatellite reports the other object at minimum Euclidean distance
\* from the selected one, the first in catalog order among those at the
\* minimum; with A at a point and B at offset (3, 4, 0) from it and nothing
\* else buffered, it reports B with distance 5.
C14_ReportsNearestFirstInCatalog ==
    (/\ lastOp = "findClosestSatellite"
     /\ store.realtimePositionGetter
     /\ store.selectedSatellite \in DOMAIN localPositionBuffer) =>
        LET sel == store.selectedSatellite
            others == Measurable(store, localPositionBuffer)
            d(id) == EuclideanDistance(localPositionBuffer, id, sel)
        IN /\ others # {} =>
                /\ store.closestSatelliteId \in others
                /\ store.closestSatelliteDistance = Some(d(store.closestSatelliteId))
                /\ \A id \in others :
                      \/ d(store.closestSatelliteId) < d(id)
                      \/ /\ d(store.closestSatelliteId) = d(id)
                         /\ CatalogIndex(store.closestSatelliteId) <= CatalogIndex(id)
           /\ (/\ sel = "s1"
               /\ localPositionBuffer = [id \in {"s1", "s2"} |->
                                           IF id = "s1" THEN SamplePoint(60, 80, 0)
                                           ELSE SamplePoint(60 + 3, 80 + 4, 0)]) =>
                /\ store.closestSatelliteId = "s2"
                /\ store.closestSatelliteDistance = Some(5)

\* C14 witness: two objects at the same minimum distance from the selected
\* one; the call has reported the one that comes first in the catalog.
C14_Witness ==
    /\ lastOp = "findClosestSatellite"
    /\ store.realtimePositionGetter
    /\ store.selectedSatellite = "s1"
    /\ DOMAIN localPositionBuffer = Ids
    /\ localPositionBuffer["s1"] = SamplePoint(60, 80, 0)
    /\ localPositionBuffer["s2"] = SamplePoint(63, 76, 0)
    /\ localPositionBuffer["s3"] = SamplePoint(63, 84, 0)
    /\ store.closestSatelliteId = "s2"
    /\ store.closestSatelliteDistance = Some(5)


\* The store after the detector is re-run with the reported object selected.
RerunWithPeer(s, buf) ==
    findClosestSatellite(setSelectedSatellite(s, s.closestSatelliteId), buf)

\* A call has just reported an object for the selected one.
JustReported ==
    /\ lastOp = "findClosestSatellite"
    /\ store.realtimePositionGetter
    /\ store.selectedSatellite \in DOMAIN localPositionBuffer
    /\ Measurable(store, localPositionBuffer) # {}

C16_DistanceShownInKilometres ==
    JustReported =>
        MetresShown(formatDistance(store.closestSatelliteDistance[1]))
            = EuclideanDistance(localPositionBuffer, store.selectedSatellite,
                                store.closestSatelliteId) * KmPerTenth * 1000


\* C17: enableClosestSatelliteMode called with no selection is a no-op: no
\* store field changes (closestSatelliteMode keeps its value, false), no
\* deferred recompute is scheduled and the camera's mode effect does not run.
C17_EnableWithoutSelectionNoOp ==
    [][(lastOp' = "enableClosestSatelliteMode" /\ store.selectedSatellite = NULL) =>
          /\ store' = store
          /\ ~store'.closestSatelliteMode
          /\ pendingFind' = pendingFind
          /\ cam' = cam]_vars

\* C17 witness: the action has been called with the catalog loaded, a visit
\* in place and nothing selected.
C17_Witness ==
    /\ lastOp = "enableClosestSatelliteMode"
    /\ store.selectedSatellite = NULL
    /\ store.visitedObject # NULL
    /\ Len(store.satellites) > 0
    /\ ~store.closestSatelliteMode
    /\ pendingFind = 0


\* C18: on every tick on which visitedObject is non-null, closestSatelliteMode
\* is true or a transition is in progress, the camera is left as the same tick
\* leaves it when nothing is followed: the follow branch changes neither the
\* camera position nor the look-at, whatever followedSatellite is.
C18_FollowOnlyWhenIdle ==
    [][(/\ lastOp' = "CameraFrame"
        /\ \/ store.visitedObject # NULL
           \/ store.closestSatelliteMode
           \/ cam.isTransitioning) =>
          \E step \in 1..MaxDelta :
             LET unfollowed == CameraFrame(cam, setFollowedSatellite(store, NULL),
                                           localPositionBuffer, step)
             IN /\ cam'.position = unfollowed.position
                /\ cam'.target = unfollowed.target]_vars

\* C18 witness: a tick has run in compare mode with an object followed whose
\* position is buffered, the camera at rest in the compare view.
C18_Witness ==
    /\ lastOp = "CameraFrame"
    /\ store.followedSatellite # NULL
    /\ store.followedSatellite \in DOMAIN localPositionBuffer
    /\ store.closestSatelliteMode
    /\ ~cam.isTransitioning
    /\ cam.cameraState = "closest_satellite_view"


\* The preset the camera is animating towards (during a transition) or
\* resting in (otherwise).
ActivePreset(c) == IF c.isTransitioning THEN c.targetPreset ELSE c.cameraState

\* C19: on every frame the minDistance and maxDistance given to the orbit
\* controls are those of the preset the camera is animating towards or
\* resting in; limits of a different preset are never in force.
C19_LimitsMatchActivePreset ==
    /\ getMinDistance(cam) = PresetLimits(ActivePreset(cam)).minDistance
    /\ getMaxDistance(cam) = PresetLimits(ActivePreset(cam)).maxDistance


\* C20: on a recompute at camera-to-object distance d the trail sample count
\* is 0 when d > 100; 100 when d < 15; the floor of the line from 100 at 15
\* down to 10 at 50 when 15 <= d < 50; and the floor of the line from 10 at 50
\* down to 0 at 100 when 50 <= d <= 100.  The floor n of a value v / w is stated
\* as n * w <= v < (n + 1) * w.
C20_SampleCountFromDistance ==
    [][(lastOp' = "TrailsFrame" /\ trails'.lastDistance # trails.lastDistance) =>
          LET d == trails'.lastDistance
              n == trails'.lodSegments
          IN IF d > 1000 THEN n = 0
             ELSE IF d < 150 THEN n = 100
             ELSE IF d < 500
             THEN LET v == 100 * 350 - (d - 150) * 90
                  IN n * 350 <= v /\ v < (n + 1) * 350
             ELSE LET v == 10 * (1000 - d)
                  IN n * 500 <= v /\ v < (n + 1) * 500]_vars

\* C20 witness: a recompute at 32.5 scene units, inside the interpolation
\* band, has set 55 samples.
C20_Witness ==
    /\ lastOp = "TrailsFrame"
    /\ trails.lastDistance = 325
    /\ trails.lodSegments = 55

\* C21: the trail sample count is never negative, is exactly 100 while the
\* recorded distance is below the near threshold (15), and is non-increasing in
\* distance from the near threshold on: the count recorded at distance d is at
\* least the count the recompute yields at every distance e >= d.
C21_SampleCountNonIncreasing ==
    LET d == trails.lastDistance
        n == trails.lodSegments
    IN /\ n >= 0
       /\ d < LOD_NEAR_DISTANCE => n = MAX_TRAIL_SEGMENTS
       /\ d >= LOD_NEAR_DISTANCE =>
              \A e \in d..(MaxLodSteps * LodStep) : NewSegments(e) <= n

\* C21 witness: a recompute exactly at the far threshold (50 scene units),
\* where the two interpolation bands meet, has set 10 samples.
C21_Witness ==
    /\ lastOp = "TrailsFrame"
    /\ trails.lastDistance = LOD_FAR_DISTANCE
    /\ trails.lodSegments = MIN_TRAIL_SEGMENTS

C23_SendsRateLimited ==
    /\ arduino.gap # None => arduino.gap[1] >= 250
    /\ (lastOp = "SatellitesFrame" /\ arduino.tick # "none") =>
          store.selectedSatellite # NULL

\* C23 witness: a frame has sent 251 ms after the previous send, for another
\* selected object than the frames before the selection changed.
C23_Witness ==
    /\ lastOp = "SatellitesFrame"
    /\ arduino.tick = "returns"
    /\ arduino.gap = Some(251)
    /\ store.selectedSatellite = Catalog[2]

C25_NoCatalogNoWrites ==
    [][fetchState' # "resolved" =>
          /\ store'.satellites = <<>>
          /\ localPositionBuffer' = EmptyMap
          /\ store'.satellitePositions = EmptyMap
          /\ lastOp' = "SatellitesFrame" =>
                UNCHANGED <<store, localPositionBuffer, frameCounter>>]_vars

\* C25 witness: a frame has run after the fetch failed, with an object
\* selected through the store and the clock advanced.
C25_Witness ==
    /\ fetchState = "failed"
    /\ lastOp = "SatellitesFrame"
    /\ store.selectedSatellite = Catalog[1]
    /\ store.currentTime = 2

\* C26: every lookup the detector makes through getRealtimePosition returns
\* the position buffer's entry for the object or none, whether or not the
\* getter is registered.
C26_LookupsReadBuffer ==
    [][(lastOp' \in {"FindTimerFires", "IntervalFires"}
        /\ store.selectedSatellite # NULL) =>
          LET pos == getRealtimePosition(store, localPositionBuffer,
                                         store.selectedSatellite)
          IN \/ pos = None
             \/ pos = MapGet(localPositionBuffer, store.selectedSatellite)]_vars

\* C27: the periodic search runs only while compare mode is on, and each run
\* comes exactly 2000 ms after the previous run or, for the first, after
\* compare mode was switched on; the interval exists exactly while compare mode
\* is on, so a run after a switch-off waits for the next switch-on and a full
\* period from it.
C27_PeriodicSearchCadence ==
    /\ [][lastOp' = "IntervalFires" =>
             /\ store.closestSatelliteMode
             /\ interval.elapsed = 2000]_vars
    /\ [](interval.armed <=> store.closestSatelliteMode)
    /\ [](interval.armed => interval.elapsed + interval.due = 2000)

\* C27 witness: the periodic search has run at 4500 ms of wall clock, its
\* second run for a compare mode switched on at 500 ms, with a peer reported.
C27_Witness ==
    /\ lastOp = "IntervalFires"
    /\ interval.clock = 4500
    /\ store.closestSatelliteMode
    /\ store.closestSatelliteId # NULL

C29_TickAdvancesFromCurrentState ==
    /\ [][lastOp' = "ClockTick" =>
             /\ store'.currentTime = IF store.isPaused THEN store.currentTime
                                     ELSE store.currentTime + store.timeSpeed
             /\ store'.timeSpeed = store.timeSpeed
             /\ store'.isPaused = store.isPaused]_vars
    /\ [][lastOp' = "TimeReset" =>
             /\ store'.timeSpeed = 1
             /\ ~store'.isPaused
             /\ store'.currentTime \in 0..MaxTime]_vars

\* C29 witness: a tick has fired after the speed was changed to 10 following a
\* reset to the wall-clock reading 2, and has advanced the time by 10 periods.
C29_Witness ==
    /\ lastOp = "ClockTick"
    /\ store.timeSpeed = 10
    /\ ~store.isPaused
    /\ store.currentTime = 12

\* C30: an Earth click or the Visit Earth button leaves visitedObject =
\* 'earth', no selection, compare mode off and no closest id or distance,
\* whatever the state before; return-to-overview leaves no visited object and
\* no selection.
C30_VisitEarthDeselects ==
    /\ [][lastOp' \in {"EarthClick", "VisitEarthButton"} =>
             /\ store'.visitedObject = EARTH
             /\ store'.selectedSatellite = NULL
             /\ ~store'.closestSatelliteMode
             /\ store'.closestSatelliteId = NULL
             /\ store'.closestSatelliteDistance = None]_vars
    /\ [][lastOp' = "ReturnToOverview" =>
             /\ store'.visitedObject = NULL
             /\ store'.selectedSatellite = NULL]_vars

\* C30 witness: the Earth has been clicked while the one-shot search of a
\* compare request was still armed, that is with an object selected and
\* compare mode on just before.
C30_Witness ==
    /\ lastOp = "EarthClick"
    /\ pendingFind > 0
    /\ store.visitedObject = EARTH
    /\ store.selectedSatellite = NULL

\* C31: a closestSatelliteId that is not null differs from selectedSatellite
\* and is the id of an object of the catalog.
C31_ClosestIsAnotherCatalogObject ==
    store.closestSatelliteId # NULL =>
        /\ store.closestSatelliteId # store.selectedSatellite
        /\ \E i \in 1..Len(store.satellites) :
              store.satellites[i] = store.closestSatelliteId

\* C31 witness: the search has reported a peer for the selected object.
C31_Witness ==
    /\ lastOp \in {"FindTimerFires", "IntervalFires"}
    /\ store.selectedSatellite # NULL
    /\ store.closestSatelliteId # NULL

\* C32: while a camera transition is in progress, from startTransition until
\* the progress reaches 1, the controls' autoRotate is false.
C32_NoAutoRotateInTransition ==
    cam.isTransitioning => ~cam.autoRotate

\* C33: selecting or deselecting an object while the camera rests in Overview,
\* nothing visited and compare mode off, starts no transition: cameraState
\* stays overview, transitionProgress is not reset, the camera is not moved.
C33_SelectionInOverviewStartsNoTransition ==
    [][(/\ cam.cameraState = "overview"
        /\ ~cam.isTransitioning
        /\ store.visitedObject = NULL /\ store'.visitedObject = NULL
        /\ ~store.closestSatelliteMode /\ ~store'.closestSatelliteMode
        /\ store'.selectedSatellite # store.selectedSatellite)
          => /\ cam'.cameraState = "overview"
             /\ cam'.transitionProgress = cam.transitionProgress
             /\ cam'.position = cam.position]_vars

\* C34: after every processed frame of the motion trails each trail holds at
\* most 100 points, none of them 10 s old or older, and there is trail data
\* only for the selected and the visited object, never for 'earth': the trail
\* of an object no longer selected or visited is gone after the frame.
C34_TrailsBoundedAndScoped ==
    [][lastOp' = "MotionTrailsFrame" =>
          \A satId \in DOMAIN motionTrails'.trailData :
             LET trail == motionTrails'.trailData[satId]
             IN /\ Len(trail) <= MAX_TRAIL_POINTS
                /\ \A i \in 1..Len(trail) :
                      motionTrails'.now - trail[i] < TRAIL_LIFETIME
                /\ satId # EARTH
                /\ satId \in {store'.selectedSatellite, store'.visitedObject}]_vars

C34_Witness ==
    /\ lastOp = "MotionTrailsFrame"
    /\ \E satId \in DOMAIN motionTrails.trailData :
          Len(motionTrails.trailData[satId]) = MAX_TRAIL_POINTS

\* C35: for every sample count n other than 0, when the selected object
\* propagates, the orbital trail has exactly n points and one of them is the
\* sample at the current simulated time (offset 0), for odd and even n.
C35_TrailHasCurrentSample ==
    (/\ trails.lodSegments # 0
     /\ \E i \in 1..Len(store.satellites) : store.satellites[i] = store.selectedSatellite
     /\ PropagateOutcome(store.selectedSatellite, store.currentTime) = "ok")
       => /\ Len(trailData(store, trails.lodSegments).points) = trails.lodSegments
          /\ trailData(store, trails.lodSegments).currentPosition

\* C36: at most one execution of fetchLatestTLEs is fetching or writing at a
\* time, and a call arriving while an update is in progress returns without
\* fetching and without changing the cache or lastUpdate.
C36_UpdatesMutuallyExclusive ==
    /\ [](Cardinality(server.running) <= 1)
    /\ [][(server.updateInProgress /\ lastOp' = "UpdateRequested") =>
             /\ server'.last.op = "skipped"
             /\ server'.running = server.running
             /\ server'.tleCache = server.tleCache
             /\ server'.lastUpdate = server.lastUpdate
             /\ server'.updateInProgress]_vars

C36_Witness ==
    /\ server.last.op = "skipped"
    /\ server.last.call > 2
    /\ \E exec \in server.running : exec.category > 1

\* C37: when an execution that passed the guard finishes, by returning after
\* any mix of successful and failed categories or by throwing, updateInProgress
\* is false again; a flag that is set is always released later.
C37_FlagAlwaysReleased ==
    /\ [][server'.last.op = "finished" /\ server'.last # server.last
             => ~server'.updateInProgress]_vars
    /\ (server.updateInProgress ~> ~server.updateInProgress)

C37_Witness ==
    /\ server.last.op = "finished"
    /\ server.last.result = "thrown"
    /\ server.last.fetchSuccessful
    /\ ~server.updateInProgress

\* C38: an update advances lastUpdate exactly when at least one of its
\* categories was fetched successfully; when all fail, lastUpdate and the
\* cache are as before the update; no step removes an entry of the cache.
C38_LastUpdateIffSomeCategoryFetched ==
    /\ [][server'.last.op = "finished" /\ server'.last # server.last =>
             LET some == \E k \in 1..Len(server'.last.results) :
                            server'.last.results[k] = "ok"
             IN /\ some <=> server'.lastUpdate > server'.last.before.lastUpdate
                /\ ~some => /\ server'.lastUpdate = server'.last.before.lastUpdate
                            /\ server'.tleCache = server'.last.before.tleCache]_vars
    /\ [][DOMAIN server.tleCache \subseteq DOMAIN server'.tleCache]_vars

C38_Witness ==
    /\ server.last.op = "finished"
    /\ server.last.results = <<"rejects", "ok", "http", "rejects">>
    /\ server.lastUpdate = server.now
    /\ "90001" \in DOMAIN server.tleCache

====
